---- MODULE Spec2Model ----
(***************************************************************************)
(* Model of the SEC 10-K load workflow of financial_data_load:             *)
(* main.cmd_load, config.connect, loader.clear_database,                   *)
(* pipeline.process_all_pdfs / _run_all / _write_summary /                 *)
(* run_entity_resolution and the DDL functions of schema.py.               *)
(*                                                                         *)
(* The graph store, the extraction engine (SimpleKGPipeline), the fuzzy    *)
(* resolver and the vector-index helper are external collaborators: the    *)
(* model records every call the code makes to them in `calls` and draws    *)
(* their outcomes (return / raise) nondeterministically.                   *)
(***************************************************************************)
EXTENDS Integers, Sequences, FiniteSets, TLC

----------------------------------------------------------------------------
(* Bounds *)

\* PDF files that can be present in the source directory are named 1..MaxDocs
\* (the lexical filename order is the order of the integers).
MaxDocs == 3

\* Number of consecutive load commands run against the same store.
MaxRuns == 2

----------------------------------------------------------------------------
(* Optional values: Python's None and a present value *)

None == << >>

Some(x) == << x >>

----------------------------------------------------------------------------
(* schema.py: constraint and index definitions *)

CONSTRAINTS == << "unique_company_name", "unique_asset_manager_name" >>

EXTRACTION_CONSTRAINTS ==
    << "unique_riskfactor_name", "unique_product_name",
       "unique_executive_name", "unique_financialmetric_name" >>

FULLTEXT_INDEXES == << "search_entities", "chunkText" >>

VECTOR_INDEX == "chunkEmbeddings"

\* Token lookup indexes every store has; SHOW INDEXES reports them with
\* type LOOKUP and clear_database leaves them in place.
LOOKUP_INDEXES == { "node_label_lookup", "rel_type_lookup" }

----------------------------------------------------------------------------
(* Inputs of a run *)

Docs == 1 .. MaxDocs

\* --limit values: None (flag absent) or an int accepted by argparse type=int.
Limits == { None } \cup { Some(n) : n \in -1 .. MaxDocs }

\* An extraction either returns (None) or raises an Exception whose str() is
\* the message carried here; str(e) may be the empty string.
ErrorMessages == { "", "bad pdf" }

Outcomes == { None } \cup { Some(m) : m \in ErrorMessages }

\* Engine construction: which constructor of process_all_pdfs raises, if any.
\* "no_provider": AgentConfig() inside get_llm rejects the settings.
EngineOutcomes == { "ok", "no_provider", "llm", "embedder", "pipeline" }

\* driver.verify_connectivity(): returns, raises ServiceUnavailable/OSError,
\* or raises another error (e.g. AuthError).
ConnOutcomes == { "ok", "unavailable", "other" }

\* Neo4jConfig(): valid settings, a missing or malformed credential, or a
\* URI whose scheme is not in the allow-list.
CfgOutcomes == { "ok", "missing", "bad_scheme" }

\* Filenames for which Company_Filings.csv has a row.
CsvFiles == { 1, 2 }

----------------------------------------------------------------------------
(* Pure helpers *)

Range(seq) == { seq[k] : k \in 1 .. Len(seq) }

\* sorted(PDF_DIR.glob("*.pdf")): the increasing sequence of a set of names.
RECURSIVE sorted(_)
sorted(S) ==
    IF S = {} THEN << >>
    ELSE LET m == CHOOSE x \in S : \A y \in S : x <= y
         IN  << m >> \o sorted(S \ { m })

\* Python slice seq[:n] for an int n (negative n counts from the end).
SliceTo(seq, n) ==
    LET stop == IF n >= 0
                THEN (IF n < Len(seq) THEN n ELSE Len(seq))
                ELSE (IF Len(seq) + n > 0 THEN Len(seq) + n ELSE 0)
    IN  SubSeq(seq, 1, stop)

\* pdf_files[:args.limit] guarded by `if args.limit:` (None and 0 are falsy).
ApplyLimit(seq, limit) ==
    IF limit = None \/ limit[1] = 0 THEN seq ELSE SliceTo(seq, limit[1])

\* [r for r in results if r.success] / [r for r in results if not r.success]
RECURSIVE FilterSuccess(_, _)
FilterSuccess(rs, flag) ==
    IF rs = << >> THEN << >>
    ELSE IF Head(rs).success = flag
         THEN << Head(rs) >> \o FilterSuccess(Tail(rs), flag)
         ELSE FilterSuccess(Tail(rs), flag)

\* traceback.format_exc() inside the except block: never empty, ends with
\* the exception line.
format_exc(e) == << "Traceback (most recent call last):", e[1] >>

\* PDFProcessingResult.__init__
PDFProcessingResult(pdf_path) ==
    [ pdf_path        |-> pdf_path,
      start_time      |-> 0,
      end_time        |-> 0,
      success         |-> FALSE,
      error           |-> None,
      error_traceback |-> None ]

\* PDFProcessingResult.duration
duration(r) == IF r.end_time # 0 THEN r.end_time - r.start_time ELSE 0

\* sum(r.duration for r in results)
RECURSIVE total_time(_)
total_time(rs) ==
    IF rs = << >> THEN 0 ELSE duration(Head(rs)) + total_time(Tail(rs))

\* Faulty variant of write_summary: splits the records on the truthiness of
\* r.error instead of r.success, so a failure whose message is empty is
\* listed as a success.
write_summary_by_error(rs) ==
    LET truthy(r)  == r.error # None /\ r.error # Some("")
        flagged    == [ k \in 1 .. Len(rs) |->
                          [ rs[k] EXCEPT !.success = ~truthy(rs[k]) ] ]
        successful == FilterSuccess(flagged, TRUE)
        failed     == FilterSuccess(flagged, FALSE)
    IN  [ total      |-> Len(rs),
          successful |-> Len(successful),
          failed     |-> Len(failed),
          total_time |-> total_time(rs),
          ok_lines   |-> [ k \in 1 .. Len(successful) |->
                             successful[k].pdf_path ],
          fail_lines |-> [ k \in 1 .. Len(failed) |->
                             [ name      |-> failed[k].pdf_path,
                               error     |-> failed[k].error,
                               traceback |-> failed[k].error_traceback ] ] ]

\* _write_summary: the content of the summary file.
write_summary(rs) ==
    LET successful == FilterSuccess(rs, TRUE)
        failed     == FilterSuccess(rs, FALSE)
    IN  [ total      |-> Len(rs),
          successful |-> Len(successful),
          failed     |-> Len(failed),
          total_time |-> total_time(rs),
          ok_lines   |-> [ k \in 1 .. Len(successful) |->
                             successful[k].pdf_path ],
          fail_lines |-> [ k \in 1 .. Len(failed) |->
                             [ name      |-> failed[k].pdf_path,
                               error     |-> failed[k].error,
                               traceback |-> failed[k].error_traceback ] ] ]

----------------------------------------------------------------------------
(* State *)

VARIABLES
    pc,          \* position of the command in cmd_load / connect
    runs,        \* load commands started so far
    args,        \* argparse namespace of this run: clear, limit
    store,       \* graph store: constraints, indexes, labels that have nodes
    driverOpen,  \* the Neo4j driver of this run is open
    exc,         \* exception propagating out of the with-block, or "none"
    found,       \* sorted(PDF_DIR.glob("*.pdf"))
    pdf_files,   \* the list handed to process_all_pdfs
    company_meta,\* filenames that have reference metadata
    i,           \* loop index of _run_all (1-based), 0 outside the loop
    result,      \* the PDFProcessingResult of the document in progress
    results,     \* process_all_pdfs.results
    raised,      \* what each attempted extraction did (the engine's side)
    env,         \* what the other collaborators did in this run ("" = not yet)
    inflight,    \* number of pipeline.run_async calls awaiting completion
    clock,       \* time.time() ticks of this run
    calls,       \* calls made to the external collaborators in this run
    out,         \* lines printed or logged in this run
    summary,     \* summary artifact of this run, or None
    db,          \* graph store of the clean / verify commands, with counts
    deleted_total, \* clear_database.deleted_total, as the latest clear left it
    tally,       \* verify_searches: its counters passed and failed
    checked,     \* what each search check of verify_searches did
    fin,         \* arguments of the loader / config function under study
    fout,        \* its result, or None before the call
    state,       \* AgentSession.state: the entry of the UserInfoMemory provider
    context      \* SessionContext: the instructions the provider injected

\* State of the load command
loadVars == << store, found, pdf_files, company_meta, result, results,
              raised, inflight, clock, summary >>

\* State of the clean, verify and samples commands
cmdVars == << db, deleted_total, tally, checked >>

\* State of the function-level checks
funVars == << fin, fout >>

\* State of an agent session with the UserInfoMemory context provider
memVars == << state, context >>

vars == << pc, runs, args, store, driverOpen, exc, found, pdf_files,
           company_meta, i, result, results, raised, env, inflight,
           clock, calls, out, summary, db, deleted_total, tally, checked,
           fin, fout, state, context >>

\* A call to a collaborator: operation, document (0 if none), name ("" if none).
Call(op, doc, name) == [ op |-> op, doc |-> doc, name |-> name ]

\* A printed or logged line: tag, document (0 if none), text ("" if none).
Line(tag, doc, text) == [ tag |-> tag, doc |-> doc, text |-> text ]

NoEnv ==
    [ cfg |-> "", conn |-> "", engine |-> "", vector |-> "", holdings |-> "" ]

EmptyStore ==
    [ constraints |-> {}, indexes |-> LOOKUP_INDEXES, labels |-> {} ]

\* The variables of the other commands and of the function-level checks,
\* at rest
\* An agent session before its first turn: the state dict is empty and
\* the context carries no instructions
NewSession ==
    /\ state = None
    /\ context = [ instructions |-> << >> ]

Unused ==
    /\ NewSession
    /\ db = [ constraints |-> {}, indexes |-> {}, nodes |-> << >>, rels |-> 0 ]
    /\ deleted_total = 0
    /\ tally = [ passed |-> 0, failed |-> 0 ]
    /\ checked = << >>
    /\ fin = None
    /\ fout = None

Init ==
    /\ Unused
    /\ pc = "idle"
    /\ runs = 0
    /\ args = [ command |-> "load", clear |-> FALSE, limit |-> None ]
    /\ store = EmptyStore
    /\ driverOpen = FALSE
    /\ exc = "none"
    /\ found = << >>
    /\ pdf_files = << >>
    /\ company_meta = {}
    /\ i = 0
    /\ result = None
    /\ results = << >>
    /\ raised = << >>
    /\ env = NoEnv
    /\ inflight = 0
    /\ clock = 1
    /\ calls = << >>
    /\ out = << >>
    /\ summary = None

----------------------------------------------------------------------------
\* Faulty variant of cmd_load_body: constraints created right after the
\* batch, before entity resolution.
cmd_load_body_constraints_before_resolution ==
    << "clear", "metadata", "get_pdfs", "engine", "constraints",
       "resolution", "vector", "fulltext", "holdings", "verify" >>

\* Faulty variant of cmd_load_body: constraints created with the metadata,
\* before the batch.
cmd_load_body_constraints_first ==
    << "clear", "metadata", "constraints", "get_pdfs", "engine",
       "resolution", "vector", "fulltext", "holdings", "verify" >>

\* Faulty variant of cmd_load_body: entity resolution left out.
cmd_load_body_no_resolution ==
    << "clear", "metadata", "get_pdfs", "engine",
       "constraints", "vector", "fulltext", "holdings", "verify" >>

(* main.cmd_load: the statements of the with-block, in program order.
   "engine" stands for the call of process_all_pdfs, whose own steps are
   engine -> loop <-> await -> summary. *)

cmd_load_body ==
    << "clear", "metadata", "get_pdfs", "engine", "resolution",
       "constraints", "vector", "fulltext", "holdings", "verify" >>

\* The statement executed after statement p returns normally; leaving the
\* with-block runs connect()'s finally ("close").
After(p) ==
    LET k == CHOOSE n \in 1 .. Len(cmd_load_body) : cmd_load_body[n] = p
    IN  IF k < Len(cmd_load_body) THEN cmd_load_body[k + 1] ELSE "close"

(* main.main -> cmd_load: a new `load [--limit N] [--clear]` command *)

Finished == pc \in { "idle", "done", "exited", "raised" }

StartLoad ==
    /\ UNCHANGED << cmdVars, funVars, memVars >>
    /\ Finished
    /\ runs < MaxRuns
    /\ \E c \in BOOLEAN, l \in Limits :
           args' = [ command |-> "load", clear |-> c, limit |-> l ]
    /\ runs' = runs + 1
    /\ pc' = "connect"
    /\ driverOpen' = FALSE
    /\ exc' = "none"
    /\ found' = << >>
    /\ pdf_files' = << >>
    /\ company_meta' = {}
    /\ i' = 0
    /\ result' = None
    /\ results' = << >>
    /\ raised' = << >>
    /\ env' = NoEnv
    /\ inflight' = 0
    /\ clock' = 1
    /\ calls' = << >>
    /\ out' = << >>
    /\ summary' = None
    /\ UNCHANGED store

\* main.main: args.func(args); the first statement of each command's
\* with-block
Entry(command) ==
    CASE command = "load"    -> cmd_load_body[1]
      [] command = "clean"   -> "drop_constraints"
      [] command = "verify"  -> "verify_counts"
      [] command = "samples" -> "samples"

\* Faulty variant of on_unavailable: the diagnostic is printed but the
\* command goes on into its body.
on_unavailable_continue == Entry(args.command)

\* connect(): `except (ServiceUnavailable, OSError)` ends in sys.exit(1)
on_unavailable == "exited"

\* Exit status of the process once the command has ended: 0 on return,
\* 1 on sys.exit(1) and on an uncaught exception
ExitStatus == IF pc = "done" THEN 0 ELSE 1

(* config.connect up to the yield *)
Connect ==
    /\ pc = "connect"
    /\ \E g \in CfgOutcomes, c \in ConnOutcomes :
         IF g # "ok"
         THEN \* `config = Neo4jConfig()`, the first statement, raises a
              \* validation error: no driver is made
              /\ env' = [ env EXCEPT !.cfg = g ]
              /\ calls' = calls
              /\ driverOpen' = FALSE
              /\ out' = out
              /\ pc' = "raised"
              /\ exc' = "ValidationError"
         ELSE
         /\ calls' = Append(calls, Call("verify_connectivity", 0, ""))
         /\ env' = [ env EXCEPT !.cfg = "ok", !.conn = c ]
         /\ CASE c = "ok" ->
                   /\ driverOpen' = TRUE
                   /\ out' = Append(out, Line("connected", 0, ""))
                   /\ pc' = Entry(args.command)
                   /\ exc' = exc
              [] c = "unavailable" ->
                   \* driver.close(); diagnostic; sys.exit(1)
                   /\ driverOpen' = FALSE
                   /\ out' = Append(out, Line("cannot_connect", 0, ""))
                   /\ pc' = on_unavailable
                   /\ exc' = "SystemExit"
              [] c = "other" ->
                   \* not caught by `except (ServiceUnavailable, OSError)`:
                   \* propagates before the try/finally is entered
                   /\ driverOpen' = TRUE
                   /\ out' = out
                   /\ pc' = "raised"
                   /\ exc' = "ConnectError"
    /\ UNCHANGED << runs, args, store, found, pdf_files, company_meta, i,
                    result, results, raised, inflight, clock, summary >>
    /\ UNCHANGED << cmdVars, funVars, memVars >>

(* loader.clear_database: drop every constraint, every index whose type is
   not LOOKUP, and delete all nodes and relationships *)
clear_database(s) ==
    [ constraints |-> {},
      indexes     |-> { x \in s.indexes : x \in LOOKUP_INDEXES },
      labels      |-> {} ]

(* cmd_load: if args.clear: clear_database(driver) *)
ClearStep ==
    /\ UNCHANGED << cmdVars, funVars, memVars >>
    /\ pc = "clear"
    /\ IF args.clear
       THEN /\ store' = clear_database(store)
            /\ calls' = Append(calls, Call("clear_database", 0, ""))
       ELSE UNCHANGED << store, calls >>
    /\ pc' = After("clear")
    /\ UNCHANGED << runs, args, driverOpen, exc, found, pdf_files,
                    company_meta, i, result, results, raised, env, inflight,
                    clock, out, summary >>

(* cmd_load: load_company_metadata + create_company_nodes when the CSV exists *)
LoadMetadata ==
    /\ UNCHANGED << cmdVars, funVars, memVars >>
    /\ pc = "metadata"
    /\ \E exists \in BOOLEAN :
         IF exists
         THEN /\ company_meta' = CsvFiles
              /\ store' = [ store EXCEPT !.labels = @ \cup
                              (IF CsvFiles # {} THEN { "Company" } ELSE {}) ]
              /\ calls' = Append(calls, Call("create_company_nodes", 0, ""))
         ELSE /\ company_meta' = {}
              /\ UNCHANGED << store, calls >>
    /\ pc' = After("metadata")
    /\ UNCHANGED << runs, args, driverOpen, exc, found, pdf_files, i, result,
                    results, raised, env, inflight, clock, out, summary >>

\* Faulty variant of on_no_pdfs: the message is printed but the return is
\* missing.
on_no_pdfs_continue == After("get_pdfs")

\* `if not pdf_files: print(...); return` leaves the with-block at once.
on_no_pdfs == "close"

(* cmd_load: sorted glob, the empty-directory return, the --limit slice *)
GetPdfs ==
    /\ UNCHANGED << cmdVars, funVars, memVars >>
    /\ pc = "get_pdfs"
    /\ \E dir \in SUBSET Docs :
         /\ found' = sorted(dir)
         /\ IF found' = << >>
            THEN /\ out' = Append(out, Line("no_pdf_files_found", 0, ""))
                 /\ pdf_files' = << >>
                 /\ pc' = on_no_pdfs
            ELSE /\ pdf_files' = ApplyLimit(found', args.limit)
                 /\ out' = Append(out, Line("processing_n_pdfs",
                                            Len(pdf_files'), ""))
                 /\ pc' = After("get_pdfs")
    /\ UNCHANGED << runs, args, store, driverOpen, exc, company_meta, i,
                    result, results, raised, env, inflight, clock, calls, summary >>

----------------------------------------------------------------------------
(* pipeline.process_all_pdfs *)

\* The constructors run in this order; the one named by e raises.
EngineCalls(e) ==
    CASE e = "llm"      -> << Call("get_llm", 0, "") >>
      [] e = "no_provider" -> << Call("get_llm", 0, "") >>
      [] e = "embedder" -> << Call("get_llm", 0, ""),
                              Call("get_embedder", 0, "") >>
      [] OTHER          -> << Call("get_llm", 0, ""),
                              Call("get_embedder", 0, ""),
                              Call("SimpleKGPipeline", 0, "") >>

\* Faulty variant of on_engine_error: the constructor's exception is
\* swallowed and cmd_load carries on after process_all_pdfs.
on_engine_error_swallowed == After("engine")

\* No try/except surrounds the constructors: their exception leaves
\* process_all_pdfs and cmd_load, and only connect()'s finally still runs.
on_engine_error == "close"

(* process_all_pdfs, lines before _run_all: logging, LLM, embedder, pipeline *)
ConstructEngine ==
    /\ UNCHANGED << cmdVars, funVars, memVars >>
    /\ pc = "engine"
    /\ \E e \in EngineOutcomes :
         /\ env' = [ env EXCEPT !.engine = e ]
         /\ calls' = calls \o EngineCalls(e)
         /\ IF e = "ok"
            THEN /\ out' = Append(out, Line("creating_pipeline", 0, ""))
                 /\ i' = 1
                 /\ pc' = "loop"
                 /\ exc' = exc
            ELSE /\ out' = out
                 /\ i' = i
                 /\ pc' = on_engine_error
                 /\ exc' = IF e = "no_provider" THEN "ValidationError"
                           ELSE "EngineError"
    /\ results' = << >>
    /\ UNCHANGED << runs, args, store, driverOpen, found, pdf_files,
                    company_meta, result, raised, inflight, clock, summary >>

\* Faulty variant of loop_ready: the call is started without being awaited.
loop_ready_no_await == pc \in { "loop", "await" }

\* `await pipeline.run_async(...)` suspends _run_all until the call has
\* completed: the loop statement runs only when nothing is awaited.
loop_ready == pc = "loop"

(* _run_all, loop body up to `await pipeline.run_async(...)` *)
ExtractBegin ==
    /\ UNCHANGED << cmdVars, funVars, memVars >>
    /\ loop_ready
    /\ i <= Len(pdf_files)
    /\ LET pdf_path == pdf_files[i]
           meta     == pdf_path \in company_meta
       IN  /\ result' = Some([ PDFProcessingResult(pdf_path)
                                 EXCEPT !.start_time = clock ])
           /\ out' = Append(out, Line("processing", pdf_path, ""))
           /\ calls' = Append(calls,
                  Call("run_async", pdf_path,
                       IF meta THEN "source+meta" ELSE "source"))
    /\ inflight' = inflight + 1
    /\ clock' = clock + 1
    /\ pc' = "await"
    /\ UNCHANGED << runs, args, store, driverOpen, exc, found, pdf_files,
                    company_meta, i, results, raised, env, summary >>

\* try-branch of the loop body
on_success(r, now) ==
    [ r EXCEPT !.end_time = now, !.success = TRUE ]

\* Faulty variant of on_failure: the error message is not stored.
on_failure_no_message(r, now, e) ==
    [ r EXCEPT !.end_time = now,
               !.success = FALSE,
               !.error_traceback = Some(format_exc(e)) ]

\* except-branch of the loop body: e is the raised Exception
on_failure(r, now, e) ==
    [ r EXCEPT !.end_time = now,
               !.success = FALSE,
               !.error = Some(e[1]),
               !.error_traceback = Some(format_exc(e)) ]

(* _run_all, from the completion of run_async to results.append(result) *)
ExtractEnd ==
    /\ UNCHANGED << cmdVars, funVars, memVars >>
    /\ pc = "await"
    /\ \E e \in Outcomes :
         LET r == result[1] IN
         /\ raised' = Append(raised, e)
         /\ IF e = None
            THEN /\ results' = Append(results, on_success(r, clock))
                 /\ out' = out \o << Line("OK", r.pdf_path, ""),
                                     Line("log_SUCCESS", r.pdf_path, "") >>
                 \* the engine wrote the document and its chunks
                 /\ store' = [ store EXCEPT !.labels =
                                 @ \cup { "Document", "Chunk" } ]
            ELSE /\ results' = Append(results, on_failure(r, clock, e))
                 /\ out' = out \o << Line("FAIL", r.pdf_path, e[1]),
                                     Line("log_FAILED", r.pdf_path, e[1]),
                                     Line("log_traceback", r.pdf_path, e[1]) >>
                 /\ store' = store
    /\ inflight' = inflight - 1
    /\ clock' = clock + 1
    /\ result' = None
    /\ i' = i + 1
    /\ pc' = "loop"
    /\ UNCHANGED << runs, args, driverOpen, exc, found, pdf_files,
                    company_meta, env, calls, summary >>

\* Faulty variant of on_interrupt: the interrupt is handled like the error
\* of a document and the loop goes on.
on_interrupt_caught == "loop"

\* KeyboardInterrupt is not an Exception: `except Exception` does not catch
\* it, it leaves _run_all, asyncio.run, process_all_pdfs and cmd_load, and
\* only connect()'s finally still runs.
on_interrupt == "close"

(* _run_all: a keyboard interrupt arrives while run_async is awaited; the
   record of the document stays unfinished and is not appended *)
ExtractInterrupt ==
    /\ UNCHANGED << cmdVars, funVars, memVars >>
    /\ pc = "await"
    /\ exc' = "KeyboardInterrupt"
    /\ inflight' = inflight - 1
    /\ clock' = clock + 1
    /\ i' = i + 1
    /\ pc' = on_interrupt
    /\ UNCHANGED << runs, args, store, driverOpen, found, pdf_files,
                    company_meta, result, results, raised, env, calls, out,
                    summary >>

\* Faulty variant of close_after_loop: the client is closed as soon as one
\* document has been attempted.
close_after_first == i > 1

\* `await llm.async_client.close()` is the statement that follows the for
\* loop of _run_all
close_after_loop == i > Len(pdf_files)

(* _run_all after the loop: await llm.async_client.close() *)
CloseLLM ==
    /\ UNCHANGED << cmdVars, funVars, memVars >>
    /\ loop_ready
    /\ close_after_loop
    /\ calls' = Append(calls, Call("llm_close", 0, ""))
    /\ i' = 0
    /\ pc' = "summary"
    /\ UNCHANGED << runs, args, store, driverOpen, exc, found, pdf_files,
                    company_meta, result, results, raised, env, inflight, clock,
                    out, summary >>

\* The "Failed PDFs:" lines of the printed summary
FailedLines(failed) ==
    [ k \in 1 .. Len(failed) |->
        Line("failed_pdf", failed[k].pdf_path, failed[k].error[1]) ]

(* process_all_pdfs after asyncio.run: printed summary, _write_summary, return *)
Summarize ==
    /\ UNCHANGED << cmdVars, funVars, memVars >>
    /\ pc = "summary"
    /\ LET successful == FilterSuccess(results, TRUE)
           failed     == FilterSuccess(results, FALSE)
       IN  out' = out
                  \o << Line("processed", Len(results), ""),
                        Line("n_successful", Len(successful), ""),
                        Line("n_failed", Len(failed), "") >>
                  \o FailedLines(failed)
                  \o << Line("summary_written", 0, "") >>
    /\ summary' = Some(write_summary(results))
    /\ pc' = After("engine")
    /\ UNCHANGED << runs, args, store, driverOpen, exc, found, pdf_files,
                    company_meta, i, result, results, raised, env, inflight,
                    clock, calls >>

(* pipeline.run_entity_resolution *)
RunEntityResolution ==
    /\ UNCHANGED << cmdVars, funVars, memVars >>
    /\ pc = "resolution"
    /\ calls' = Append(calls, Call("resolver_run", 0, ""))
    /\ out' = Append(out, Line("entity_resolution_complete", 0, ""))
    /\ pc' = After("resolution")
    /\ UNCHANGED << runs, args, store, driverOpen, exc, found, pdf_files,
                    company_meta, i, result, results, raised, env, inflight,
                    clock, summary >>

----------------------------------------------------------------------------
(* schema.py DDL functions *)

\* Faulty variant of ddl_create: `CREATE ... name` without IF NOT EXISTS
\* fails when the name exists.
ddl_create_plain(existing, name) ==
    [ names |-> existing \cup { name }, error |-> name \in existing ]

\* One `CREATE ... name IF NOT EXISTS` statement on the set of existing
\* names: creates the name when absent, is a no-op when present, never fails.
ddl_create(existing, name) ==
    [ names |-> existing \cup { name }, error |-> FALSE ]

\* The for-loop of a DDL function: one statement per name, in list order;
\* a failing statement raises and ends the loop. `done` counts the
\* statements executed.
RECURSIVE create_each(_, _)
create_each(existing, names) ==
    IF names = << >>
    THEN [ names |-> existing, error |-> FALSE, done |-> 0 ]
    ELSE LET r == ddl_create(existing, Head(names))
         IN  IF r.error
             THEN [ names |-> r.names, error |-> TRUE, done |-> 1 ]
             ELSE LET rest == create_each(r.names, Tail(names))
                  IN  [ rest EXCEPT !.done = @ + 1 ]

ConstraintCalls(names, n) ==
    [ k \in 1 .. n |-> Call("create_constraint", 0, names[k]) ]

ConstraintLines(names, n) ==
    [ k \in 1 .. n |-> Line("OK_constraint", 0, names[k]) ]

IndexCalls(names, n) ==
    [ k \in 1 .. n |-> Call("create_fulltext_index", 0, names[k]) ]

IndexLines(names, n) ==
    [ k \in 1 .. n |-> Line("OK_fulltext_index", 0, names[k]) ]

(* schema.create_all_constraints *)
CreateAllConstraints ==
    /\ UNCHANGED << cmdVars, funVars, memVars >>
    /\ pc = "constraints"
    /\ LET names == CONSTRAINTS \o EXTRACTION_CONSTRAINTS
           r     == create_each(store.constraints, names)
       IN  /\ store' = [ store EXCEPT !.constraints = r.names ]
           /\ calls' = calls \o ConstraintCalls(names, r.done)
           /\ IF r.error
              THEN /\ out' = out \o ConstraintLines(names, r.done - 1)
                   /\ exc' = "Neo4jError"
                   /\ pc' = "close"
              ELSE /\ out' = out \o ConstraintLines(names, r.done)
                   /\ exc' = exc
                   /\ pc' = After("constraints")
    /\ UNCHANGED << runs, args, driverOpen, found, pdf_files, company_meta,
                    i, result, results, raised, env, inflight, clock,
                    summary >>

\* Faulty variant of on_vector_error: the run skips the rest of cmd_load.
on_vector_error_abort == "close"

\* `except Exception as e: print("[WARN] ...")`: the error is swallowed and
\* create_embedding_indexes returns normally to cmd_load.
on_vector_error == After("vector")

(* schema.create_embedding_indexes *)
CreateEmbeddingIndexes ==
    /\ UNCHANGED << cmdVars, funVars, memVars >>
    /\ pc = "vector"
    /\ calls' = Append(calls, Call("create_vector_index", 0, VECTOR_INDEX))
    /\ \E raises \in BOOLEAN :
         IF raises
         THEN /\ env' = [ env EXCEPT !.vector = "raise" ]
              /\ store' = store
              /\ out' = Append(out, Line("WARN_vector_index", 0,
                                         "index creation failed"))
              /\ pc' = on_vector_error
         ELSE /\ env' = [ env EXCEPT !.vector = "ok" ]
              /\ store' = [ store EXCEPT !.indexes = @ \cup { VECTOR_INDEX } ]
              /\ out' = Append(out, Line("OK_vector_index", 0, VECTOR_INDEX))
              /\ pc' = After("vector")
    /\ UNCHANGED << runs, args, driverOpen, exc, found, pdf_files,
                    company_meta, i, result, results, raised, inflight,
                    clock, summary >>

(* schema.create_fulltext_indexes *)
CreateFulltextIndexes ==
    /\ UNCHANGED << cmdVars, funVars, memVars >>
    /\ pc = "fulltext"
    /\ LET r == create_each(store.indexes, FULLTEXT_INDEXES)
       IN  /\ store' = [ store EXCEPT !.indexes = r.names ]
           /\ calls' = calls \o IndexCalls(FULLTEXT_INDEXES, r.done)
           /\ IF r.error
              THEN /\ out' = out \o IndexLines(FULLTEXT_INDEXES, r.done - 1)
                   /\ exc' = "Neo4jError"
                   /\ pc' = "close"
              ELSE /\ out' = out \o IndexLines(FULLTEXT_INDEXES, r.done)
                   /\ exc' = exc
                   /\ pc' = After("fulltext")
    /\ UNCHANGED << runs, args, driverOpen, found, pdf_files, company_meta,
                    i, result, results, raised, env, inflight, clock,
                    summary >>

(* cmd_load: load_asset_managers + create_asset_manager_relationships when
   the holdings CSV exists *)
LoadHoldings ==
    /\ UNCHANGED << cmdVars, funVars, memVars >>
    /\ pc = "holdings"
    /\ \E exists \in BOOLEAN :
         IF exists
         THEN /\ env' = [ env EXCEPT !.holdings = "yes" ]
              /\ calls' = Append(calls,
                     Call("create_asset_manager_relationships", 0, ""))
              /\ store' = [ store EXCEPT !.labels = @ \cup { "AssetManager" } ]
              /\ out' = Append(out, Line("OK_asset_managers", 0, ""))
         ELSE /\ env' = [ env EXCEPT !.holdings = "no" ]
              /\ UNCHANGED << calls, store, out >>
    /\ pc' = After("holdings")
    /\ UNCHANGED << runs, args, driverOpen, exc, found, pdf_files,
                    company_meta, i, result, results, raised, inflight,
                    clock, summary >>

(* cmd_load: verify(driver); validate_enrichment(driver) *)
Verify ==
    /\ UNCHANGED << cmdVars, funVars, memVars >>
    /\ pc = "verify"
    /\ calls' = calls \o << Call("verify", 0, ""),
                            Call("validate_enrichment", 0, "") >>
    /\ out' = Append(out, Line("node_counts", 0, ""))
    /\ pc' = After("verify")
    /\ UNCHANGED << runs, args, store, driverOpen, exc, found, pdf_files,
                    company_meta, i, result, results, raised, env, inflight,
                    clock, summary >>

(* connect()'s finally: driver.close(); then cmd_load returns or the pending
   exception propagates *)
Close ==
    /\ UNCHANGED << cmdVars, funVars, memVars >>
    /\ pc = "close"
    /\ driverOpen' = FALSE
    /\ calls' = Append(calls, Call("driver_close", 0, ""))
    /\ IF exc = "none"
       THEN /\ pc' = "done"
            \* cmd_load prints "Done in ..." unless it returned early,
            \* cmd_clean prints "Done.", the other commands print nothing
            /\ out' = CASE args.command = "load" /\ found # << >> ->
                             Append(out, Line("done", 0, ""))
                        [] args.command = "clean" ->
                             Append(out, Line("done", 0, ""))
                        [] OTHER -> out
       ELSE /\ pc' = "raised"
            /\ out' = out
    /\ UNCHANGED << runs, args, store, exc, found, pdf_files, company_meta,
                    i, result, results, raised, env, inflight, clock, summary >>

----------------------------------------------------------------------------

Next ==
    \/ StartLoad
    \/ Connect
    \/ ClearStep
    \/ LoadMetadata
    \/ GetPdfs
    \/ ConstructEngine
    \/ ExtractBegin
    \/ ExtractEnd
    \/ ExtractInterrupt
    \/ CloseLLM
    \/ Summarize
    \/ RunEntityResolution
    \/ CreateAllConstraints
    \/ CreateEmbeddingIndexes
    \/ CreateFulltextIndexes
    \/ LoadHoldings
    \/ Verify
    \/ Close

Spec == Init /\ [][Next]_vars

----------------------------------------------------------------------------
(* Vocabulary of the properties *)

\* Positions in `calls` of the calls of one operation
Pos(op) == { p \in 1 .. Len(calls) : calls[p].op = op }

\* Positions in `calls` where a constraint of the given list is created
PosConstraint(names) ==
    { p \in Pos("create_constraint") : calls[p].name \in Range(names) }

\* Documents handed to the extraction engine so far, in call order
Invoked ==
    LET ps == Pos("run_async")
        RECURSIVE walk(_)
        walk(p) == IF p > Len(calls) THEN << >>
                   ELSE IF p \in ps THEN << calls[p].doc >> \o walk(p + 1)
                   ELSE walk(p + 1)
    IN  walk(1)

\* Indices of the attempts whose extraction raised
FailedAttempts == { k \in 1 .. Len(raised) : raised[k] # None }

\* process_all_pdfs is not running: no engine being built, no document in
\* progress, no summary pending
OutsideBatch == pc \notin { "engine", "loop", "await", "summary" }

\* The batch of this run was started and control has left process_all_pdfs
BatchLeft == raised # << >> /\ OutsideBatch

HasLine(tag) == \E n \in 1 .. Len(out) : out[n].tag = tag

\* A keyboard interrupt ended the batch of this run
Interrupted == exc = "KeyboardInterrupt"

TypeOK ==
    /\ inflight \in 0 .. 1
    /\ runs \in 0 .. MaxRuns
    /\ Len(results) <= Len(pdf_files)

----------------------------------------------------------------------------
(* Failure isolation in the batch *)

\* C1: in a batch of N documents in which exactly one document k fails during
\* extraction, every document (those after k included) is attempted, the
\* printed summary and the summary artifact report N-1 successes and 1
\* failure, and the artifact carries the failing document's name and error
\* message.
C1_OneFailureIsolated ==
    (BatchLeft /\ ~Interrupted /\ Cardinality(FailedAttempts) = 1) =>
        LET N == Len(pdf_files)
            k == CHOOSE x \in FailedAttempts : TRUE
        IN  /\ Invoked = pdf_files
            /\ Len(raised) = N
            /\ summary # None
            /\ summary[1].total = N
            /\ summary[1].successful = N - 1
            /\ summary[1].failed = 1
            /\ Len(summary[1].fail_lines) = 1
            /\ summary[1].fail_lines[1].name = pdf_files[k]
            /\ summary[1].fail_lines[1].error = Some(raised[k][1])
            /\ \E n \in 1 .. Len(out) : out[n] = Line("n_successful", N - 1, "")
            /\ \E n \in 1 .. Len(out) : out[n] = Line("n_failed", 1, "")

\* Witness of C1: a finished batch of three documents whose first document
\* failed and whose later documents were attempted and succeeded.
C1_Witness ==
    /\ BatchLeft
    /\ Len(pdf_files) = 3
    /\ FailedAttempts = { 1 }
    /\ Len(raised) = 3
    /\ summary # None

\* C2: documents are processed strictly sequentially in the order given: at
\* every moment the extraction calls made so far are the first documents of
\* the list, in order, every one of them but at most the last is finished
\* and recorded (the last one is not when it is in flight or was interrupted),
\* so that at most one extraction is in flight.
C2_Sequential ==
    /\ inflight \in { 0, 1 }
    /\ Len(Invoked) = Len(results) + inflight + (IF Interrupted THEN 1 ELSE 0)
    /\ Len(Invoked) <= Len(pdf_files)
    /\ Invoked = SubSeq(pdf_files, 1, Len(Invoked))
    /\ \A k \in 1 .. Len(results) : results[k].pdf_path = pdf_files[k]
    /\ (inflight = 1) <=> (pc = "await")

\* Witness of C2: the second document is in flight after the first was recorded.
C2_Witness ==
    /\ pc = "await"
    /\ inflight = 1
    /\ Len(results) = 1
    /\ Len(Invoked) = 2

\* C3: whatever subset of the documents raises (all of them included),
\* process_all_pdfs does not raise; it returns one result record per input
\* document, in input order, marked successful exactly when the extraction
\* did not raise and carrying an error message and an error detail exactly
\* when it raised.
C3_OneRecordPerDocument ==
    /\ Len(results) = Len(raised)
    /\ \A k \in 1 .. Len(results) :
         /\ results[k].pdf_path = pdf_files[k]
         /\ results[k].success = (raised[k] = None)
         /\ (results[k].error # None) = (raised[k] # None)
         /\ (results[k].error_traceback # None) = (raised[k] # None)
         /\ raised[k] # None => results[k].error = Some(raised[k][1])
    /\ (env.engine = "ok" /\ OutsideBatch /\ ~Interrupted) =>
         /\ exc = "none"
         /\ Len(results) = Len(pdf_files)
         /\ summary # None

\* Witness of C3: process_all_pdfs returned although every one of three
\* documents raised.
C3_Witness ==
    /\ env.engine = "ok"
    /\ OutsideBatch
    /\ Len(pdf_files) = 3
    /\ FailedAttempts = { 1, 2, 3 }
    /\ Len(results) = 3

----------------------------------------------------------------------------
(* Ordering of the schema phases in a load run *)

\* Every document of the batch has been attempted and recorded
AllAttempted ==
    /\ env.engine = "ok"
    /\ inflight = 0
    /\ Len(results) = Len(pdf_files)
    /\ Invoked = pdf_files

\* C4: in a load run the extraction-set uniqueness constraints (RiskFactor,
\* Product, Executive, FinancialMetric names) are created only after every
\* document attempt has finished and after entity resolution has run.
C4_ExtractionConstraintsAfterResolution ==
    \A p \in PosConstraint(EXTRACTION_CONSTRAINTS) :
        /\ AllAttempted
        /\ \A q \in Pos("run_async") : q < p
        /\ \E q \in Pos("resolver_run") : q < p

\* Witness of C4: the extraction constraints were created in a run that
\* attempted two documents or more, one of which failed.
C4_Witness ==
    /\ PosConstraint(EXTRACTION_CONSTRAINTS) # {}
    /\ Len(results) >= 2
    /\ FailedAttempts # {}
    /\ Range(EXTRACTION_CONSTRAINTS) \subseteq store.constraints

C6_ResolutionOnceAfterBatch ==
    /\ Cardinality(Pos("resolver_run")) <= 1
    /\ \A q \in Pos("resolver_run") :
         /\ AllAttempted
         /\ \A p \in Pos("run_async") : p < q
    /\ (env.engine = "ok" /\ OutsideBatch /\ pc # "resolution"
        /\ ~Interrupted) =>
         Cardinality(Pos("resolver_run")) = 1

\* Witness of C6: a completed load in which all of two documents or more
\* failed and entity resolution ran.
C6_Witness ==
    /\ pc = "done"
    /\ Len(pdf_files) >= 2
    /\ FailedAttempts = 1 .. Len(pdf_files)
    /\ Pos("resolver_run") # {}

----------------------------------------------------------------------------
(* Schema creation *)

\* Every constraint and index of schema.py is present in the store
SchemaApplied(s) ==
    /\ Range(CONSTRAINTS \o EXTRACTION_CONSTRAINTS) \subseteq s.constraints
    /\ Range(FULLTEXT_INDEXES) \cup { VECTOR_INDEX } \subseteq s.indexes

\* C7: schema creation is idempotent: create_all_constraints,
\* create_embedding_indexes and create_fulltext_indexes invoked on a store
\* where they were already applied leave the constraints and indexes
\* unchanged and raise no error.
C7_SchemaIdempotent ==
    [][ (pc \in { "constraints", "vector", "fulltext" } /\ SchemaApplied(store))
          => (store' = store /\ exc' = "none" /\ pc' = After(pc)) ]_vars

\* Witness of C7: a second load without --clear has run the three DDL
\* functions again; the vector index is present although this run's creation
\* raised, so the schema dates from the first load.
C7_Witness ==
    /\ runs = 2
    /\ ~args.clear
    /\ pc = "holdings"
    /\ env.vector = "raise"
    /\ SchemaApplied(store)

----------------------------------------------------------------------------
(* Fatal and non-fatal failures of a load run *)

\* C8: if the extraction engine (LLM, embedder or pipeline instance) cannot
\* be constructed, process_all_pdfs fails before any document is attempted
\* and the run performs no extraction call, no entity resolution and no
\* constraint or index creation.
C8_EngineFailureAborts ==
    env.engine \in { "llm", "embedder", "pipeline" } =>
        /\ exc = "EngineError"
        /\ pc \in { "close", "raised" }
        /\ results = << >> /\ raised = << >> /\ summary = None
        /\ Pos("run_async") = {}
        /\ Pos("resolver_run") = {}
        /\ Pos("create_constraint") = {}
        /\ Pos("create_vector_index") = {}
        /\ Pos("create_fulltext_index") = {}

\* Witness of C8: a run with documents to process ended with the engine's
\* construction error.
C8_Witness ==
    /\ env.engine = "embedder"
    /\ pc = "raised"
    /\ Len(pdf_files) >= 1

\* C9: if vector-index creation raises, create_embedding_indexes reports a
\* warning instead of raising, and the load run goes on to create the
\* fulltext indexes, to load the asset-manager holdings (when the holdings
\* file exists) and to run verification.
C9_VectorFailureNonFatal ==
    env.vector = "raise" =>
        /\ HasLine("WARN_vector_index")
        /\ exc = "none"
        /\ pc \in { "fulltext", "holdings", "verify", "close", "done" }
        /\ pc \in { "close", "done" } =>
             /\ \A n \in Range(FULLTEXT_INDEXES) :
                  \E q \in Pos("create_fulltext_index") :
                    /\ calls[q].name = n
                    /\ \A p \in Pos("create_vector_index") : p < q
             /\ Range(FULLTEXT_INDEXES) \subseteq store.indexes
             /\ env.holdings \in { "yes", "no" }
             /\ env.holdings = "yes" =>
                  \E q \in Pos("create_asset_manager_relationships") :
                    \A p \in Pos("create_vector_index") : p < q
             /\ \E q \in Pos("verify") :
                    \A p \in Pos("create_vector_index") : p < q

\* Witness of C9: a load completed, with holdings loaded and verification
\* run, although the vector-index creation raised.
C9_Witness ==
    /\ pc = "done"
    /\ env.vector = "raise"
    /\ env.holdings = "yes"
    /\ Pos("verify") # {}
    /\ VECTOR_INDEX \notin store.indexes

\* The source directory was listed in this run and held no PDF
NoPdfsFound ==
    /\ env.conn = "ok"
    /\ pc \notin { "clear", "metadata", "get_pdfs" }
    /\ found = << >>

\* C10: when no document is found in the source directory, the load run
\* constructs no extraction engine and makes no extraction call, and it
\* reports 'no PDF files found', a report that never appears together with
\* the success/failure summary of a batch.
C10_NoPdfsNoExtraction ==
    /\ NoPdfsFound =>
         /\ pc \in { "close", "done" }
         /\ Pos("get_llm") = {}
         /\ Pos("get_embedder") = {}
         /\ Pos("SimpleKGPipeline") = {}
         /\ Pos("run_async") = {}
         /\ HasLine("no_pdf_files_found")
    /\ HasLine("no_pdf_files_found") =>
         /\ found = << >>
         /\ summary = None
         /\ ~HasLine("processed")
         /\ ~HasLine("n_successful")
         /\ ~HasLine("n_failed")
    /\ (HasLine("processed") \/ summary # None) =>
         ~HasLine("no_pdf_files_found")

\* Witness of C10: a load returned after finding no PDF.
C10_Witness ==
    /\ NoPdfsFound
    /\ pc = "done"
    /\ HasLine("no_pdf_files_found")

----------------------------------------------------------------------------
(* The clean, verify and samples commands *)

\* loader.clear_database: LIMIT of the batched DETACH DELETE
BATCH == 500

\* loader.verify: the labels its count query names
VERIFY_LABELS ==
    { "Company", "RiskFactor", "Product", "Executive", "FinancialMetric",
      "AssetManager", "Document", "Chunk" }

\* pipeline._EXTRACTED_LABELS
EXTRACTED_LABELS == << "RiskFactor", "Product", "Executive", "FinancialMetric" >>

\* Labels of the nodes of a store: the ones verify counts, and "Other" for
\* nodes that carry none of them.
NodeLabels == VERIFY_LABELS \cup { "Other" }

NoNodes == [ l \in NodeLabels |-> 0 ]

RECURSIVE SumOver(_, _)
SumOver(f, S) ==
    IF S = {} THEN 0
    ELSE LET x == CHOOSE y \in S : TRUE
         IN  f[x] + SumOver(f, S \ { x })

\* MATCH (n) RETURN count(n)
total_nodes(d) == SumOver(d.nodes, NodeLabels)

\* Store contents a command can find: nothing, a single node, a loaded
\* graph, and node counts just below, at and above the batch size.
NodeShapes ==
    { NoNodes,
      [ NoNodes EXCEPT !["Company"] = 1 ],
      [ NoNodes EXCEPT !["Other"] = BATCH ],
      [ NoNodes EXCEPT !["Company"] = 1, !["RiskFactor"] = 1,
                       !["Document"] = 1, !["Chunk"] = BATCH + 1 ],
      [ NoNodes EXCEPT !["Chunk"] = BATCH - 1, !["Other"] = BATCH + 1 ] }

Stores ==
    { [ constraints |-> c, indexes |-> LOOKUP_INDEXES \cup x,
        nodes |-> n, rels |-> r ] :
        c \in { {}, Range(CONSTRAINTS) \cup Range(EXTRACTION_CONSTRAINTS) },
        x \in { {}, { VECTOR_INDEX } \cup Range(FULLTEXT_INDEXES) },
        n \in NodeShapes,
        r \in { 0, 2 } }

Commands == { "clean", "verify", "samples" }

InitCmd ==
    /\ pc = "idle"
    /\ runs = 0
    /\ args = [ command |-> "clean", clear |-> FALSE, limit |-> None ]
    /\ store = EmptyStore
    /\ driverOpen = FALSE
    /\ exc = "none"
    /\ found = << >>
    /\ pdf_files = << >>
    /\ company_meta = {}
    /\ i = 0
    /\ result = None
    /\ results = << >>
    /\ raised = << >>
    /\ env = NoEnv
    /\ inflight = 0
    /\ clock = 1
    /\ calls = << >>
    /\ out = << >>
    /\ summary = None
    /\ db \in { d \in Stores : d.rels > 0 => total_nodes(d) > 0 }
    /\ deleted_total = 0
    /\ tally = [ passed |-> 0, failed |-> 0 ]
    /\ checked = << >>
    /\ fin = None
    /\ fout = None
    /\ NewSession

(* main.main: a new command out of cmds *)
Start(cmds) ==
    /\ Finished
    /\ runs < MaxRuns
    /\ \E c \in cmds, l \in { None, Some(0), Some(2) } :
           /\ c # "samples" => l = None
           /\ args' = [ command |-> c, clear |-> FALSE, limit |-> l ]
    /\ runs' = runs + 1
    /\ pc' = "connect"
    /\ driverOpen' = FALSE
    /\ exc' = "none"
    /\ i' = 0
    /\ env' = NoEnv
    /\ calls' = << >>
    /\ out' = << >>
    /\ tally' = [ passed |-> 0, failed |-> 0 ]
    /\ checked' = << >>
    /\ UNCHANGED << db, deleted_total, loadVars, funVars, memVars >>

(* main.main: a new clean, verify or samples command *)
StartCmd == Start(Commands)

(* clear_database: SHOW CONSTRAINTS, then DROP CONSTRAINT for each row *)
DropConstraints ==
    /\ pc = "drop_constraints"
    /\ db' = [ db EXCEPT !.constraints = {} ]
    /\ calls' = Append(calls, Call("drop_constraints", 0, ""))
    /\ out' = out \o << Line("clearing_database", 0, "") >>
                  \o (IF db.constraints # {}
                      THEN << Line("dropped_constraints",
                                   Cardinality(db.constraints), "") >>
                      ELSE << >>)
    /\ pc' = "drop_indexes"
    /\ UNCHANGED << runs, args, driverOpen, exc, i, env, deleted_total,
                    tally, checked, loadVars, funVars, memVars >>

(* clear_database: SHOW INDEXES ... WHERE type <> 'LOOKUP', then DROP INDEX
   for each row *)
DropIndexes ==
    /\ pc = "drop_indexes"
    /\ LET rows == { x \in db.indexes : x \notin LOOKUP_INDEXES }
       IN  /\ db' = [ db EXCEPT !.indexes = db.indexes \ rows ]
           /\ out' = IF rows # {}
                     THEN Append(out, Line("dropped_indexes",
                                           Cardinality(rows), ""))
                     ELSE out
    /\ calls' = Append(calls, Call("drop_indexes", 0, ""))
    \* `deleted_total = 0` before the loop
    /\ deleted_total' = 0
    /\ pc' = "delete_batch"
    /\ UNCHANGED << runs, args, driverOpen, exc, i, env, tally, checked,
                    loadVars, funVars, memVars >>

\* The orders in which a store can pick the nodes of the labels in S
Orders(S) ==
    { o \in [ 1 .. Cardinality(S) -> S ] :
        \A a, b \in 1 .. Cardinality(S) : a # b => o[a] # o[b] }

\* The node counts left after n nodes were deleted, taken label by label in
\* the given order
RECURSIVE TakeFrom(_, _, _)
TakeFrom(nodes, order, n) ==
    IF order = << >> \/ n = 0 THEN nodes
    ELSE LET l == Head(order)
             k == IF nodes[l] < n THEN nodes[l] ELSE n
         IN  TakeFrom([ nodes EXCEPT ![l] = nodes[l] - k ], Tail(order), n - k)

\* Faulty variant of clear_loop_done: a single batch is deleted.
clear_loop_done_once(count) == TRUE

\* clear_database: `if count == 0: break`
clear_loop_done(count) == count = 0

\* Faulty variant of batch_deleted: the statement has no LIMIT.
batch_deleted_unlimited(total) == total

\* MATCH (n) WITH n LIMIT 500 DETACH DELETE n RETURN count: the number of
\* nodes one statement deletes from a store of `total` nodes
batch_deleted(total) == IF total < BATCH THEN total ELSE BATCH

(* clear_database: one iteration of the `while True` loop,
   MATCH (n) WITH n LIMIT 500 DETACH DELETE n, returning the count deleted *)
DeleteBatch ==
    /\ pc = "delete_batch"
    /\ LET total == total_nodes(db)
           count == batch_deleted(total)
       IN  /\ \E o \in Orders({ l \in NodeLabels : db.nodes[l] > 0 }) :
                \E r \in { 0, db.rels } :
                   /\ total = count => r = 0
                   /\ db' = [ db EXCEPT !.nodes = TakeFrom(db.nodes, o, count),
                                        !.rels = r ]
           /\ deleted_total' = deleted_total + count
           /\ IF clear_loop_done(count)
              THEN /\ out' = Append(out, Line("database_cleared",
                                              deleted_total', ""))
                   /\ pc' = "close"
              ELSE /\ out' = IF count > 0
                             THEN Append(out, Line("deleted_so_far",
                                                   deleted_total', ""))
                             ELSE out
                   /\ pc' = "delete_batch"
    /\ calls' = Append(calls, Call("delete_batch", 0, ""))
    /\ UNCHANGED << runs, args, driverOpen, exc, i, env, tally, checked,
                    loadVars, funVars, memVars >>

(* loader.verify: per-label counts (rows with a positive count are printed,
   ORDER BY count DESC), total nodes, total relationships *)
VerifyCounts ==
    /\ pc = "verify_counts"
    /\ LET positive == { l \in VERIFY_LABELS : db.nodes[l] > 0 }
       IN  \E o \in Orders(positive) :
              /\ \A a, b \in 1 .. Len(o) :
                    a < b => db.nodes[o[a]] >= db.nodes[o[b]]
              /\ out' = out
                        \o [ k \in 1 .. Len(o) |->
                               Line("label_count", db.nodes[o[k]], o[k]) ]
                        \o << Line("total_nodes", total_nodes(db), ""),
                              Line("total_relationships", db.rels, "") >>
    /\ calls' = Append(calls, Call("verify", 0, ""))
    /\ pc' = "validate_enrichment"
    /\ UNCHANGED << runs, args, driverOpen, exc, i, env, db, deleted_total,
                    tally, checked, loadVars, funVars, memVars >>

\* pipeline._SAMPLE_SIZE
SAMPLE_SIZE == 5

\* validate_enrichment: the checks that print a [WARN] line when their
\* query returns no row (`if not rows:` of check 1, `else:` of check 3)
enrichment_warnings == { "chunks", "relationships" }

\* The lines one check of validate_enrichment prints: its report when it
\* found something, its warning when it did not and has one
EnrichmentLines(check, n, text) ==
    IF n > 0 THEN << Line(check, n, text) >>
    ELSE IF check \in enrichment_warnings
         THEN << Line("warn_not_found", 0, check) >>
         ELSE << >>

RECURSIVE EntityLines(_, _)
EntityLines(labels, d) ==
    IF labels = << >> THEN << >>
    ELSE LET l == Head(labels)
             n == IF d.nodes[l] < SAMPLE_SIZE THEN d.nodes[l] ELSE SAMPLE_SIZE
         IN  \* `if rows:` without an else branch
             (IF n > 0 THEN << Line("entities", n, l) >> ELSE << >>)
             \o EntityLines(Tail(labels), d)

(* pipeline.validate_enrichment: four read-only checks *)
ValidateEnrichment ==
    /\ pc = "validate_enrichment"
    /\ LET linked == db.nodes["Chunk"] > 0 /\ db.nodes["Document"] > 0
                     /\ db.rels > 0
           owned  == db.nodes["Company"] > 0 /\ db.rels > 0
       IN  \E c1 \in (IF linked THEN { 0, 1, SAMPLE_SIZE } ELSE { 0 }),
              c3 \in (IF owned THEN { 0, 1 } ELSE { 0 }),
              c4 \in (IF linked THEN { 0, 1 } ELSE { 0 }) :
              out' = out
                     \o << Line("validation", SAMPLE_SIZE, ""),
                           \* 1. printed whatever the number of rows
                           Line("chunks_samples", c1, "") >>
                     \o (IF c1 = 0 THEN EnrichmentLines("chunks", 0, "")
                         ELSE << >>)
                     \* 2. one query per extracted label
                     \o EntityLines(EXTRACTED_LABELS, db)
                     \* 3. relationship frequencies
                     \o EnrichmentLines("relationships", c3, "")
                     \* 4. the aggregate returns one row, counts of zero
                     \*    included, so `if rows:` always prints it
                     \o << Line("provenance", c4, "") >>
    /\ calls' = Append(calls, Call("validate_enrichment", 0, ""))
    /\ pc' = "search_setup"
    /\ UNCHANGED << runs, args, driverOpen, exc, i, env, db, deleted_total,
                    tally, checked, loadVars, funVars, memVars >>

----------------------------------------------------------------------------
(* pipeline.verify_searches *)

\* Characters of the answers
Whitespace == { " ", "\t", "\n" }

\* str.lstrip() / str.rstrip() / str.strip() on a string given as the
\* sequence of its characters
RECURSIVE lstrip(_)
lstrip(s) ==
    IF s # << >> /\ Head(s) \in Whitespace THEN lstrip(Tail(s)) ELSE s

RECURSIVE rstrip(_)
rstrip(s) ==
    IF s # << >> /\ s[Len(s)] \in Whitespace
    THEN rstrip(SubSeq(s, 1, Len(s) - 1))
    ELSE s

\* Faulty variant of strip: the answer is taken as generated.
strip_nothing(s) == s

strip(s) == rstrip(lstrip(s))

\* retriever_config={"top_k": 3}
TOP_K == 3

\* The three checks, in the order of the `checks` list
SEARCH_CHECKS == << "vector", "hybrid", "vector_cypher" >>

\* response.answer: None or a string
Answers ==
    { None, Some(<< >>), Some(<< " ", "\n" >>), Some(<< " ", "a", " " >>) }

\* What rag.search does in one check: it raises, or it returns a response
\* with n_results retrieved items and an answer
SearchOutcomes ==
    { [ raised |-> TRUE, n_results |-> 0, answer |-> None ] }
    \cup { [ raised |-> FALSE, n_results |-> n, answer |-> a ] :
             n \in { 0, TOP_K }, a \in Answers }

\* The if / elif / else of one check on a returned response
search_verdict(o) ==
    LET answer == strip(IF o.answer = None THEN << >> ELSE o.answer[1])
    IN  IF o.n_results = 0 THEN "fail_no_results"
        ELSE IF answer = << >> THEN "fail_no_answer"
        ELSE "pass"

\* get_llm, get_embedder and the three retriever constructors run before the
\* loop, outside its try block
SetupOutcomes == { "ok", "no_provider", "llm", "embedder", "retriever" }

SetupCalls(e) ==
    CASE e \in { "llm", "no_provider" } -> << Call("get_llm", 0, "") >>
      [] e = "embedder" -> << Call("get_llm", 0, ""),
                              Call("get_embedder", 0, "") >>
      [] OTHER -> << Call("get_llm", 0, ""), Call("get_embedder", 0, ""),
                     Call("retrievers", 0, "") >>

SearchSetup ==
    /\ pc = "search_setup"
    /\ \E e \in SetupOutcomes :
         /\ env' = [ env EXCEPT !.engine = e ]
         /\ calls' = calls \o SetupCalls(e)
         /\ IF e = "ok"
            THEN /\ out' = out \o << Line("initializing", 0, ""),
                                     Line("search_verification", 0, "") >>
                 /\ pc' = "search_check"
                 /\ i' = 1
                 /\ exc' = exc
            ELSE /\ out' = Append(out, Line("initializing", 0, ""))
                 /\ pc' = "close"
                 /\ i' = i
                 /\ exc' = IF e = "no_provider" THEN "ValidationError"
                           ELSE "SetupError"
    /\ UNCHANGED << runs, args, driverOpen, db, deleted_total, tally,
                    checked, loadVars, funVars, memVars >>

\* Faulty variant of search_error_caught: the error leaves the loop.
search_error_uncaught == FALSE

\* verify_searches: `except Exception as e:` around the body of each check
search_error_caught == TRUE

(* verify_searches: one iteration of `for name, retriever, query in checks` *)
SearchCheck ==
    /\ pc = "search_check"
    /\ \E o \in SearchOutcomes :
         /\ checked' = Append(checked, o)
         /\ calls' = Append(calls, Call("rag_search", i, SEARCH_CHECKS[i]))
         /\ IF o.raised /\ ~search_error_caught
            THEN /\ exc' = "SearchError"
                 /\ pc' = "close"
                 /\ out' = Append(out, Line("check", i, SEARCH_CHECKS[i]))
                 /\ UNCHANGED << tally, i >>
            ELSE /\ exc' = exc
                 /\ LET v == IF o.raised THEN "fail_error"
                             ELSE search_verdict(o)
                    IN  /\ out' = out \o << Line("check", i, SEARCH_CHECKS[i]),
                                            Line(v, i, "") >>
                        /\ tally' = IF v = "pass"
                                    THEN [ tally EXCEPT !.passed = @ + 1 ]
                                    ELSE [ tally EXCEPT !.failed = @ + 1 ]
                 /\ i' = i + 1
                 /\ pc' = IF i < Len(SEARCH_CHECKS) THEN "search_check"
                          ELSE "search_tally"
    /\ UNCHANGED << runs, args, driverOpen, env, db, deleted_total,
                    loadVars, funVars, memVars >>

(* verify_searches: the tally printed after the loop *)
SearchTally ==
    /\ pc = "search_tally"
    /\ out' = out \o << Line("search_passed", tally.passed, ""),
                        Line("search_failed", tally.failed, "") >>
                  \o (IF tally.failed # 0
                      THEN << Line("check_indexes_hint", 0, "") >>
                      ELSE << >>)
    /\ pc' = "close"
    /\ UNCHANGED << runs, args, driverOpen, exc, i, env, calls, db,
                    deleted_total, tally, checked, loadVars, funVars, memVars >>

----------------------------------------------------------------------------
(* cmd_samples *)

\* cmd_samples: `args.limit or 10`
DEFAULT_SAMPLE_SIZE == 10

Samples ==
    /\ pc = "samples"
    /\ calls' = Append(calls,
                       Call("run_all_samples",
                            IF args.limit = None \/ args.limit[1] = 0
                            THEN DEFAULT_SAMPLE_SIZE ELSE args.limit[1], ""))
    /\ pc' = "close"
    /\ UNCHANGED << runs, args, driverOpen, exc, i, env, out, db,
                    deleted_total, tally, checked, loadVars, funVars, memVars >>

NextCmd ==
    \/ StartCmd
    \/ Connect
    \/ DropConstraints
    \/ DropIndexes
    \/ DeleteBatch
    \/ VerifyCounts
    \/ ValidateEnrichment
    \/ SearchSetup
    \/ SearchCheck
    \/ SearchTally
    \/ Samples
    \/ Close

SpecCmd == InitCmd /\ [][NextCmd]_vars

(* main.main -> cmd_clean: a new clean command *)
StartClean == Start({ "clean" })

\* The clean command alone, run to completion: clear_database is
\* straight-line code around one loop, so a process that is in the loop
\* executes its next iteration.
NextClear ==
    \/ StartClean
    \/ Connect
    \/ DropConstraints
    \/ DropIndexes
    \/ DeleteBatch
    \/ Close

SpecClear == InitCmd /\ [][NextClear]_vars /\ WF_vars(DeleteBatch)

----------------------------------------------------------------------------
(* loader.normalize_company_name *)

\* Strings that the code inspects character by character are sequences of
\* one-character strings.

LOWERCASE ==
    << "a", "b", "c", "d", "e", "f", "g", "h", "i", "j", "k", "l", "m",
       "n", "o", "p", "q", "r", "s", "t", "u", "v", "w", "x", "y", "z" >>

UPPERCASE ==
    << "A", "B", "C", "D", "E", "F", "G", "H", "I", "J", "K", "L", "M",
       "N", "O", "P", "Q", "R", "S", "T", "U", "V", "W", "X", "Y", "Z" >>

\* str.upper() on one character: a cased letter maps to its uppercase form,
\* any other character to itself
UpperChar(c) ==
    IF \E k \in 1 .. Len(LOWERCASE) : LOWERCASE[k] = c
    THEN UPPERCASE[CHOOSE k \in 1 .. Len(LOWERCASE) : LOWERCASE[k] = c]
    ELSE c

LowerChar(c) ==
    IF \E k \in 1 .. Len(UPPERCASE) : UPPERCASE[k] = c
    THEN LOWERCASE[CHOOSE k \in 1 .. Len(UPPERCASE) : UPPERCASE[k] = c]
    ELSE c

\* Faulty variant of upper: the name is looked up as written.
upper_as_written(s) == s

\* name.upper()
upper(s) == [ k \in 1 .. Len(s) |-> UpperChar(s[k]) ]

\* loader.COMPANY_NAME_MAPPINGS, in the order of the dict literal
COMPANY_NAME_MAPPINGS ==
    << [ key       |-> << "A", "M", "A", "Z", "O", "N" >>,
         canonical |-> << "A", "m", "a", "z", "o", "n", ".", "c", "o", "m", ",", " ",
                          "I", "n", "c", "." >> ],
       [ key       |-> << "N", "V", "I", "D", "I", "A", " ", "C", "O", "R", "P", "O",
                          "R", "A", "T", "I", "O", "N" >>,
         canonical |-> << "N", "V", "I", "D", "I", "A", " ", "C", "o", "r", "p", "o",
                          "r", "a", "t", "i", "o", "n" >> ],
       [ key       |-> << "A", "P", "P", "L", "E", " ", "I", "N", "C" >>,
         canonical |-> << "A", "p", "p", "l", "e", " ", "I", "n", "c", "." >> ],
       [ key       |-> << "P", "A", "Y", "P", "A", "L" >>,
         canonical |-> << "P", "a", "y", "P", "a", "l", " ", "H", "o", "l", "d", "i",
                          "n", "g", "s", ",", " ", "I", "n", "c", "." >> ],
       [ key       |-> << "I", "N", "T", "E", "L", " ", "C", "O", "R", "P" >>,
         canonical |-> << "I", "n", "t", "e", "l", " ", "C", "o", "r", "p", "o", "r",
                          "a", "t", "i", "o", "n" >> ],
       [ key       |-> << "A", "M", "E", "R", "I", "C", "A", "N", " ", "I", "N", "T",
                          "L", " ", "G", "R", "O", "U", "P" >>,
         canonical |-> << "A", "m", "e", "r", "i", "c", "a", "n", " ", "I", "n", "t",
                          "e", "r", "n", "a", "t", "i", "o", "n", "a", "l", " ", "G",
                          "r", "o", "u", "p", ",", " ", "I", "n", "c", "." >> ],
       [ key       |-> << "P", "G", "&", "E", " ", "C", "O", "R", "P" >>,
         canonical |-> << "P", "G", "&", "E", " ", "C", "o", "r", "p", "o", "r", "a",
                          "t", "i", "o", "n" >> ],
       [ key       |-> << "M", "C", "D", "O", "N", "A", "L", "D", "S", " ", "C", "O",
                          "R", "P" >>,
         canonical |-> << "M", "c", "D", "o", "n", "a", "l", "d", "'", "s", " ", "C",
                          "o", "r", "p", "o", "r", "a", "t", "i", "o", "n" >> ],
       [ key       |-> << "M", "I", "C", "R", "O", "S", "O", "F", "T", " ", "C", "O",
                          "R", "P" >>,
         canonical |-> << "M", "i", "c", "r", "o", "s", "o", "f", "t", " ", "C", "o",
                          "r", "p", "o", "r", "a", "t", "i", "o", "n" >> ] >>

\* `name in COMPANY_NAME_MAPPINGS`
IsKey(s) ==
    \E k \in 1 .. Len(COMPANY_NAME_MAPPINGS) : COMPANY_NAME_MAPPINGS[k].key = s

\* COMPANY_NAME_MAPPINGS[name]
Mapped(s) ==
    COMPANY_NAME_MAPPINGS[CHOOSE k \in 1 .. Len(COMPANY_NAME_MAPPINGS) :
                              COMPANY_NAME_MAPPINGS[k].key = s].canonical

normalize_company_name(name) ==
    IF IsKey(name) THEN Mapped(name)
    ELSE LET upper_name == upper(name)
         IN  IF IsKey(upper_name) THEN Mapped(upper_name) ELSE name

\* The spellings of s that differ from it by the case of some letters
CaseVariants(s) ==
    { [ k \in 1 .. Len(s) |-> IF k \in L THEN LowerChar(s[k]) ELSE s[k] ] :
        L \in SUBSET (1 .. Len(s)) }

\* Names given to normalize_company_name: every key and every canonical
\* form, the keys in lowercase, every mixed-case spelling of three keys, and
\* names that match no key (empty, unknown, padded with a blank, a key with
\* its last character missing)
NameInputs ==
    { COMPANY_NAME_MAPPINGS[k].key : k \in 1 .. Len(COMPANY_NAME_MAPPINGS) }
    \cup { COMPANY_NAME_MAPPINGS[k].canonical :
             k \in 1 .. Len(COMPANY_NAME_MAPPINGS) }
    \cup { [ n \in 1 .. Len(COMPANY_NAME_MAPPINGS[k].key) |->
               LowerChar(COMPANY_NAME_MAPPINGS[k].key[n]) ] :
             k \in 1 .. Len(COMPANY_NAME_MAPPINGS) }
    \cup CaseVariants(COMPANY_NAME_MAPPINGS[1].key)
    \cup CaseVariants(COMPANY_NAME_MAPPINGS[4].key)
    \cup CaseVariants(COMPANY_NAME_MAPPINGS[7].key)
    \cup { << >>, << "T", "e", "s", "l", "a" >>,
           << "P", "A", "Y", "P", "A", "L", " " >>,
           << " ", "a", "m", "a", "z", "o", "n" >>,
           << "A", "M", "A", "Z", "O" >> }

InitNormalize ==
    /\ pc = "call"
    /\ fin \in { [ f |-> "normalize_company_name", name |-> n ] :
                   n \in NameInputs }
    /\ fout = [ ret |-> << >> ]

CallNormalize ==
    /\ pc = "call"
    /\ fin.f = "normalize_company_name"
    /\ fout' = [ ret |-> normalize_company_name(fin.name) ]
    /\ pc' = "returned"
    /\ UNCHANGED << fin, runs, args, driverOpen, exc, i, env, calls, out,
                    loadVars, cmdVars, memVars >>

----------------------------------------------------------------------------
(* config.AgentConfig, config.get_llm, config.get_embedder *)

\* OPENAI_API_KEY: unset, set to the empty string, or set to a key
ApiKeys == { None, Some(""), Some("sk-key") }

\* AZURE_AI_PROJECT_ENDPOINT: unset, empty, a project endpoint, a plain one
Endpoints ==
    { None, Some(""), Some("https://host/api/projects/p"),
      Some("https://host") }

\* Python truthiness of a `str | None`
Truthy(v) == v # None /\ v[1] # ""

\* AgentConfig(): the fields, or the error of _check_provider
AgentConfig(key, endpoint) ==
    IF ~Truthy(key) /\ ~Truthy(endpoint)
    THEN [ error |-> TRUE, openai_api_key |-> key,
           project_endpoint |-> endpoint ]
    ELSE [ error |-> FALSE, openai_api_key |-> key,
           project_endpoint |-> endpoint ]

\* AgentConfig.inference_endpoint: "<base>/models" when the endpoint holds
\* "/api/projects/", else the endpoint itself
inference_endpoint(config) ==
    IF ~Truthy(config.project_endpoint) THEN None
    ELSE IF config.project_endpoint = Some("https://host/api/projects/p")
         THEN Some("https://host/models")
         ELSE config.project_endpoint

\* AgentConfig.use_openai: `self.openai_api_key is not None`
use_openai(config) == config.openai_api_key # None

\* What a credential strategy of get_azure_token() gives, and what
\* get_azure_token() gives: a token or an error
TokenOutcomes == { "token", "error" }

\* get_llm() / get_embedder(): the client built, or the exception raised
get_client(key, endpoint, t) ==
    LET config == AgentConfig(key, endpoint)
    IN  IF config.error
        THEN [ raised |-> "ValidationError", client |-> "",
               api_key |-> None, base_url |-> None ]
        ELSE IF use_openai(config)
        THEN [ raised |-> "", client |-> "openai",
               api_key |-> config.openai_api_key, base_url |-> None ]
        ELSE IF t = "error"
        THEN [ raised |-> "TokenError", client |-> "",
               api_key |-> None, base_url |-> None ]
        ELSE [ raised |-> "", client |-> "azure",
               api_key |-> Some(t), base_url |-> inference_endpoint(config) ]

InitClient ==
    /\ pc = "call"
    /\ fin \in { [ f |-> g, key |-> k, endpoint |-> e ] :
                   g \in { "get_llm", "get_embedder" },
                   k \in ApiKeys, e \in Endpoints }
    /\ fout = [ raised |-> "", client |-> "", api_key |-> None,
                base_url |-> None ]

\* get_azure_token(): AzureCliCredential is tried first and its error is
\* passed over (`except Exception: pass`); DefaultAzureCredential is tried
\* next and its error is re-raised as RuntimeError.  caught lists the errors
\* that were caught and not propagated, traces what was printed or logged.
get_azure_token(cli, default) ==
    IF cli = "token"
    THEN [ raised |-> "", outcome |-> "token", caught |-> << >>,
           traces |-> << >> ]
    ELSE IF default = "token"
    THEN [ raised |-> "", outcome |-> "token",
           caught |-> << "AzureCliCredential" >>, traces |-> << >> ]
    ELSE [ raised |-> "RuntimeError", outcome |-> "error",
           caught |-> << "AzureCliCredential" >>, traces |-> << >> ]

InitToken ==
    /\ pc = "call"
    /\ fin \in { [ f |-> "get_azure_token", cli |-> a, default |-> b ] :
                   a \in TokenOutcomes, b \in TokenOutcomes }
    /\ fout = [ raised |-> "", outcome |-> "", caught |-> << >>,
                traces |-> << >> ]

CallGetToken ==
    /\ pc = "call"
    /\ fin.f = "get_azure_token"
    /\ fout' = get_azure_token(fin.cli, fin.default)
    /\ pc' = "returned"
    /\ UNCHANGED << fin, runs, args, driverOpen, exc, i, env, calls, out,
                    loadVars, cmdVars, memVars >>

CallGetClient ==
    /\ pc = "call"
    /\ fin.f \in { "get_llm", "get_embedder" }
    /\ \E a \in TokenOutcomes, b \in TokenOutcomes :
          fout' = get_client(fin.key, fin.endpoint,
                             get_azure_token(a, b).outcome)
    /\ pc' = "returned"
    /\ UNCHANGED << fin, runs, args, driverOpen, exc, i, env, calls, out,
                    loadVars, cmdVars, memVars >>

----------------------------------------------------------------------------
(* loader: the two reference files and the nodes and relationships made
   from them *)

\* Rows read from one file
MaxRows == 2

AMAZON == COMPANY_NAME_MAPPINGS[1].key

amazon == [ k \in 1 .. Len(AMAZON) |-> LowerChar(AMAZON[k]) ]

PAYPAL == COMPANY_NAME_MAPPINGS[4].key

TESLA == << "T", "E", "S", "L", "A" >>

\* Rows of Company_Filings.csv (path_Mac_ix as directory and file name;
\* cik and cusip are read and written exactly as ticker is): two rows with
\* the same file name, two with names that normalize to the same company, a
\* row for another company, a row without a path.
CompanyRows ==
    { [ path |-> [ dir |-> "x", name |-> "a.pdf" ], name |-> AMAZON,
        ticker |-> "T1" ],
      [ path |-> [ dir |-> "y", name |-> "a.pdf" ], name |-> AMAZON,
        ticker |-> "T2" ],
      [ path |-> [ dir |-> "x", name |-> "b.pdf" ], name |-> amazon,
        ticker |-> "T3" ],
      [ path |-> [ dir |-> "x", name |-> "c.pdf" ], name |-> PAYPAL,
        ticker |-> "T2" ],
      [ path |-> [ dir |-> "", name |-> "" ], name |-> PAYPAL,
        ticker |-> "T3" ] }

\* Rows of Asset_Manager_Holdings.csv: two rows for the same manager and
\* company, rows of other managers and companies, a company with no node.
HoldingRows ==
    { [ manager_name |-> "m1", company_name |-> AMAZON, shares |-> 1 ],
      [ manager_name |-> "m1", company_name |-> amazon, shares |-> 2 ],
      [ manager_name |-> "m2", company_name |-> AMAZON, shares |-> 1 ],
      [ manager_name |-> "m2", company_name |-> PAYPAL, shares |-> 3 ],
      [ manager_name |-> "m1", company_name |-> TESLA, shares |-> 3 ] }

\* The sequences of at most n elements of S
RECURSIVE SeqsUpTo(_, _)
SeqsUpTo(S, n) ==
    IF n = 0 THEN { << >> }
    ELSE LET shorter == SeqsUpTo(S, n - 1)
         IN  shorter \cup { Append(q, x) : q \in shorter, x \in S }

\* dict[key] = val on a dict kept as the sequence of its items in insertion
\* order: an existing key keeps its position
DictPut(d, key, val) ==
    IF \E k \in 1 .. Len(d) : d[k].key = key
    THEN [ k \in 1 .. Len(d) |->
             IF d[k].key = key THEN [ key |-> key, val |-> val ] ELSE d[k] ]
    ELSE Append(d, [ key |-> key, val |-> val ])

\* Faulty variant of meta_key: the dict is keyed by the ticker.
meta_key_ticker(row) == Some(row.ticker)

\* load_company_metadata: `Path(path).name if path else None`
meta_key(row) ==
    IF row.path.name = "" THEN None ELSE Some(row.path.name)

RECURSIVE load_company_metadata(_)
load_company_metadata(rows) ==
    IF rows = << >> THEN << >>
    ELSE LET companies == load_company_metadata(SubSeq(rows, 1, Len(rows) - 1))
             row       == rows[Len(rows)]
             filename  == meta_key(row)
         IN  IF filename = None THEN companies
             ELSE DictPut(companies, filename[1],
                          [ name |-> row.name, ticker |-> row.ticker ])

\* load_asset_managers: one holding per row, in file order
load_asset_managers(rows) == rows

NoGraph == [ companies |-> {}, managers |-> {}, owns |-> {} ]

\* MERGE (c:Company:__Entity__ {name: $name}) SET c.ticker = $ticker
MergeCompany(g, name, ticker) ==
    [ g EXCEPT !.companies =
        { c \in @ : c.name # name } \cup { [ name |-> name, ticker |-> ticker ] } ]

RECURSIVE create_company_nodes(_, _)
create_company_nodes(g, companies) ==
    IF companies = << >> THEN g
    ELSE LET meta == Head(companies).val
         IN  create_company_nodes(
                 MergeCompany(g, normalize_company_name(meta.name), meta.ticker),
                 Tail(companies))

\* MERGE (a:AssetManager {managerName}) WITH a MATCH (c:Company {name})
\* MERGE (a)-[r:OWNS]->(c) SET r.shares = $shares
MergeHolding(g, manager, company, shares) ==
    [ g EXCEPT
        !.managers = @ \cup { manager },
        !.owns = IF \E c \in g.companies : c.name = company
                 THEN { r \in @ : ~(r.manager = manager /\ r.company = company) }
                      \cup { [ manager |-> manager, company |-> company,
                               shares |-> shares ] }
                 ELSE @ ]

RECURSIVE create_asset_manager_relationships(_, _)
create_asset_manager_relationships(g, holdings) ==
    IF holdings = << >> THEN g
    ELSE LET holding == Head(holdings)
         IN  create_asset_manager_relationships(
                 MergeHolding(g, holding.manager_name,
                              normalize_company_name(holding.company_name),
                              holding.shares),
                 Tail(holdings))

\* cmd_load on an empty store with both files present: the mapping returned
\* by load_company_metadata and the graph written from the two files
load_reference_files(company_rows, holding_rows) ==
    LET company_meta_ == load_company_metadata(company_rows)
        g1 == create_company_nodes(NoGraph, company_meta_)
        g2 == create_asset_manager_relationships(
                  g1, load_asset_managers(holding_rows))
    IN  [ meta |-> Range(company_meta_), graph |-> g2 ]

InitLoadFiles ==
    /\ pc = "call"
    /\ fin \in { [ f |-> "load_reference_files", companies |-> c,
                   holdings |-> h ] :
                   c \in SeqsUpTo(CompanyRows, MaxRows),
                   h \in SeqsUpTo(HoldingRows, MaxRows) }
    /\ fout = [ meta |-> {}, graph |-> NoGraph ]

CallLoadFiles ==
    /\ pc = "call"
    /\ fin.f = "load_reference_files"
    /\ fout' = load_reference_files(fin.companies, fin.holdings)
    /\ pc' = "returned"
    /\ UNCHANGED << fin, runs, args, driverOpen, exc, i, env, calls, out,
                    loadVars, cmdVars, memVars >>

----------------------------------------------------------------------------
(* loader.load_company_metadata and loader.load_asset_managers on one row as
   csv.DictReader gives it *)

\* Python values of a cell or a field
PyNone == [ type |-> "NoneType", s |-> << >>, n |-> 0 ]

PyStr(s) == [ type |-> "str", s |-> s, n |-> 0 ]

PyInt(n) == [ type |-> "int", s |-> << >>, n |-> n ]

\* A column of a DictReader row: the header has no such column (the key is
\* not in the dict: << >>), or the key is there with its value.  The value
\* is None when the line is shorter than the header (restval), else the
\* text of the cell, which may be empty.
NoColumn == << >>

TextCells ==
    { NoColumn, << PyNone >>, << PyStr(<< >>) >>, << PyStr(<< "v" >>) >> }

PathCells ==
    { NoColumn, << PyNone >>, << PyStr(<< >>) >>,
      << PyStr(<< "d", "/", "a" >>) >> }

SharesCells ==
    { NoColumn, << PyNone >>, << PyStr(<< >>) >>, << PyStr(<< "7" >>) >>,
      << PyStr(<< " ", "1", "2" >>) >>, << PyStr(<< "-", "3" >>) >>,
      << PyStr(<< "x" >>) >> }

\* row.get(column, default)
get(row, column, default) ==
    IF row[column] = NoColumn THEN default ELSE row[column][1]

\* Python truthiness of a cell value
Falsy(v) == v.type = "NoneType" \/ (v.type = "str" /\ v.s = << >>)

\* Path(path).name: the characters after the last "/"
RECURSIVE basename(_)
basename(s) ==
    IF s = << >> \/ s[Len(s)] = "/" THEN << >>
    ELSE Append(basename(SubSeq(s, 1, Len(s) - 1)), s[Len(s)])

DIGITS == << "0", "1", "2", "3", "4", "5", "6", "7", "8", "9" >>

IsDigit(c) == \E k \in 1 .. Len(DIGITS) : DIGITS[k] = c

DigitValue(c) == (CHOOSE k \in 1 .. Len(DIGITS) : DIGITS[k] = c) - 1

RECURSIVE ParseDigits(_)
ParseDigits(s) ==
    IF s = << >> THEN 0
    ELSE 10 * ParseDigits(SubSeq(s, 1, Len(s) - 1)) + DigitValue(s[Len(s)])

\* int(v): an int is returned as it is; None raises TypeError; a text is
\* stripped and read as an optionally signed decimal number, else ValueError
int(v) ==
    IF v.type = "int" THEN [ raised |-> "", value |-> v.n ]
    ELSE IF v.type = "NoneType" THEN [ raised |-> "TypeError", value |-> 0 ]
    ELSE LET t      == strip(v.s)
             signed == t # << >> /\ t[1] \in { "+", "-" }
             digits == IF signed THEN Tail(t) ELSE t
         IN  IF digits # << >> /\ \A k \in 1 .. Len(digits) : IsDigit(digits[k])
             THEN [ raised |-> "",
                    value |-> IF signed /\ t[1] = "-"
                              THEN 0 - ParseDigits(digits)
                              ELSE ParseDigits(digits) ]
             ELSE [ raised |-> "ValueError", value |-> 0 ]

\* The record load_company_metadata stores for one row, and whether the row
\* is kept (`if filename:`)
company_record(row) ==
    LET path     == get(row, "path_Mac_ix", PyStr(<< >>))
        filename == IF Falsy(path) THEN PyNone ELSE PyStr(basename(path.s))
    IN  [ raised |-> "",
          kept   |-> ~Falsy(filename),
          record |-> [ name   |-> get(row, "name", PyStr(<< >>)),
                       ticker |-> get(row, "ticker", PyStr(<< >>)),
                       cik    |-> get(row, "cik", PyStr(<< >>)),
                       cusip  |-> get(row, "cusip", PyStr(<< >>)) ] ]

\* The record load_asset_managers appends for one row, or the exception of
\* int()
holding_record(row) ==
    LET shares == int(get(row, "shares", PyInt(0)))
    IN  [ raised |-> shares.raised,
          kept   |-> shares.raised = "",
          record |-> [ manager_name |-> get(row, "managerName", PyStr(<< >>)),
                       company_name |-> get(row, "companyName", PyStr(<< >>)),
                       shares       |-> PyInt(shares.value) ] ]

InitLoadRow ==
    /\ pc = "call"
    /\ fin \in { [ f |-> "load_company_metadata",
                   row |-> [ path_Mac_ix |-> a, name |-> b, ticker |-> c,
                             cik |-> d, cusip |-> e ] ] :
                   a \in PathCells, b \in TextCells, c \in TextCells,
                   d \in TextCells, e \in TextCells }
           \cup { [ f |-> "load_asset_managers",
                    row |-> [ managerName |-> a, companyName |-> b,
                              shares |-> c ] ] :
                    a \in TextCells, b \in TextCells, c \in SharesCells }
    /\ fout = [ raised |-> "", kept |-> FALSE ]

CallLoadRow ==
    /\ pc = "call"
    /\ fin.f \in { "load_company_metadata", "load_asset_managers" }
    /\ fout' = IF fin.f = "load_company_metadata"
               THEN company_record(fin.row)
               ELSE holding_record(fin.row)
    /\ pc' = "returned"
    /\ UNCHANGED << fin, runs, args, driverOpen, exc, i, env, calls, out,
                    loadVars, cmdVars, memVars >>

----------------------------------------------------------------------------
(* The functions above, each called once on one input *)

InitFun ==
    /\ runs = 0
    /\ args = [ command |-> "load", clear |-> FALSE, limit |-> None ]
    /\ store = EmptyStore
    /\ driverOpen = FALSE
    /\ exc = "none"
    /\ found = << >>
    /\ pdf_files = << >>
    /\ company_meta = {}
    /\ i = 0
    /\ result = None
    /\ results = << >>
    /\ raised = << >>
    /\ env = NoEnv
    /\ inflight = 0
    /\ clock = 1
    /\ calls = << >>
    /\ out = << >>
    /\ summary = None
    /\ db = [ constraints |-> {}, indexes |-> {}, nodes |-> << >>, rels |-> 0 ]
    /\ deleted_total = 0
    /\ tally = [ passed |-> 0, failed |-> 0 ]
    /\ checked = << >>
    /\ NewSession
    /\ \/ InitNormalize
       \/ InitClient
       \/ InitLoadFiles
       \/ InitLoadRow
       \/ InitToken

NextFun ==
    \/ CallNormalize
    \/ CallGetClient
    \/ CallLoadFiles
    \/ CallLoadRow
    \/ CallGetToken

SpecFun == InitFun /\ [][NextFun]_vars

----------------------------------------------------------------------------
(* main.cmd_solutions with a choice on the command line, main._run_solution *)

\* main.SOLUTIONS: the module names, in list order
SOLUTIONS ==
    << "solution_srcs.01_01_data_loading",
       "solution_srcs.01_02_embeddings",
       "solution_srcs.01_03_entity_extraction",
       "solution_srcs.01_04_full_dataset_queries",
       "solution_srcs.02_01_vector_retriever",
       "solution_srcs.02_02_vector_cypher_retriever",
       "solution_srcs.02_03_text2cypher_retriever",
       "solution_srcs.05_01_simple_agent",
       "solution_srcs.05_02_context_provider",
       "solution_srcs.03_02_vector_graph_agent",
       "solution_srcs.03_03_text2cypher_agent",
       "solution_srcs.05_01_fulltext_search",
       "solution_srcs.05_02_hybrid_search",
       "solution_srcs.04_01_fulltext_context_provider",
       "solution_srcs.04_02_vector_context_provider",
       "solution_srcs.04_03_graph_enriched_provider",
       "solution_srcs.06_01_memory_context_provider",
       "solution_srcs.06_02_memory_tools_agent" >>

\* `for i in range(4, len(SOLUTIONS) + 1)`: the first solution of "run all"
RUN_ALL_FROM == 4

\* The menu's "Data Pipeline - WARNING! These will delete all data" entries
DATA_DELETING == { 1, 2, 3 }

\* args.choice as typed on the command line
Choices ==
    { << "A" >>, << "a" >>, << "0" >>, << "3" >>, << "4" >>,
      << "1", "8" >>, << "1", "9" >>, << "x" >> }

\* What importing and running a solution module can do: return, raise an
\* Exception (an ImportError included), or be interrupted from the keyboard
SolutionOutcomes == { "ok", "error", "interrupt" }

\* Faulty variant of solution_error_caught: the error leaves _run_solution.
solution_error_uncaught(outcome) == FALSE

\* _run_solution: `except Exception as e: print(f"Error: {e}")`
solution_error_caught(outcome) == outcome = "error"

\* _run_solution(choice) when the solution behaves as `outcome`: the value
\* returned, the module run, the lines printed, and the exception raised
run_solution(choice, outcome) ==
    IF choice = 0
    THEN [ ret |-> FALSE, calls |-> << >>, out |-> << >>, raised |-> "" ]
    ELSE IF choice < 1 \/ choice > Len(SOLUTIONS)
    THEN [ ret |-> TRUE, calls |-> << >>,
           out |-> << Line("invalid_choice", 0, "") >>, raised |-> "" ]
    ELSE LET module  == SOLUTIONS[choice]
             running == << Line("running", choice, module) >>
             run     == << Call("run_solution", choice, module) >>
         IN  CASE outcome = "ok" ->
                    [ ret |-> TRUE, calls |-> run,
                      out |-> Append(running, Line("rule", choice, "")),
                      raised |-> "" ]
               [] outcome = "interrupt" ->
                    [ ret |-> TRUE, calls |-> run,
                      out |-> Append(running, Line("interrupted", choice, "")),
                      raised |-> "KeyboardInterrupt" ]
               [] solution_error_caught(outcome) ->
                    [ ret |-> TRUE, calls |-> run,
                      out |-> running \o << Line("error", choice, module),
                                            Line("rule", choice, "") >>,
                      raised |-> "" ]
               [] OTHER ->
                    [ ret |-> TRUE, calls |-> run, out |-> running,
                      raised |-> "Exception" ]

\* `choice.upper() == "A"`
run_all(choice) == upper(choice) = << "A" >>

InitSol ==
    /\ Unused
    /\ pc = "idle"
    /\ runs = 0
    /\ args = [ command |-> "solutions", choice |-> << "0" >> ]
    /\ store = EmptyStore
    /\ driverOpen = FALSE
    /\ exc = "none"
    /\ found = << >>
    /\ pdf_files = << >>
    /\ company_meta = {}
    /\ i = 0
    /\ result = None
    /\ results = << >>
    /\ raised = << >>
    /\ env = NoEnv
    /\ inflight = 0
    /\ clock = 1
    /\ calls = << >>
    /\ out = << >>
    /\ summary = None

(* main.main -> cmd_solutions: `solutions <choice>` *)
StartSolutions ==
    /\ Finished
    /\ runs < MaxRuns
    /\ \E c \in Choices :
          /\ args' = [ command |-> "solutions", choice |-> c ]
          /\ IF run_all(c)
             THEN pc' = "run_all" /\ i' = RUN_ALL_FROM
             ELSE pc' = "run_one" /\ i' = 0
    /\ runs' = runs + 1
    /\ exc' = "none"
    /\ calls' = << >>
    /\ out' = << >>
    /\ UNCHANGED << driverOpen, env, loadVars, cmdVars, funVars, memVars >>

(* cmd_solutions, choice A: one iteration of
   `for i in range(4, len(SOLUTIONS) + 1): _run_solution(i)` *)
RunAllStep ==
    /\ pc = "run_all"
    /\ i <= Len(SOLUTIONS)
    /\ \E o \in SolutionOutcomes :
          LET r == run_solution(i, o)
          IN  /\ calls' = calls \o r.calls
              /\ CASE r.raised = "" ->
                        /\ out' = out \o r.out
                        /\ i' = i + 1
                        /\ pc' = "run_all"
                        /\ exc' = exc
                   [] r.raised = "KeyboardInterrupt" ->
                        \* print("Exiting."); sys.exit(0)
                        /\ out' = out \o r.out \o << Line("exiting", 0, "") >>
                        /\ i' = i
                        /\ pc' = "exited"
                        /\ exc' = "SystemExit"
                   [] OTHER ->
                        /\ out' = out \o r.out
                        /\ i' = i
                        /\ pc' = "raised"
                        /\ exc' = r.raised
    /\ UNCHANGED << runs, args, driverOpen, env, loadVars, cmdVars, funVars, memVars >>

(* cmd_solutions, choice A: the loop is over *)
RunAllDone ==
    /\ pc = "run_all"
    /\ i > Len(SOLUTIONS)
    /\ out' = Append(out, Line("all_completed", 0, ""))
    /\ pc' = "done"
    /\ UNCHANGED << runs, args, driverOpen, exc, i, env, calls, loadVars,
                    cmdVars, funVars, memVars >>

(* cmd_solutions, any other choice: `_run_solution(int(choice))` inside
   `try ... except ValueError` *)
RunOne ==
    /\ pc = "run_one"
    /\ LET n == int(PyStr(args.choice))
       IN  IF n.raised # ""
           THEN /\ out' = Append(out, Line("invalid", 0, ""))
                /\ pc' = "done"
                /\ UNCHANGED << exc, i, calls >>
           ELSE \E o \in SolutionOutcomes :
                  LET r == run_solution(n.value, o)
                  IN  /\ i' = n.value
                      /\ calls' = calls \o r.calls
                      /\ out' = out \o r.out
                      /\ IF r.raised = ""
                         THEN pc' = "done" /\ exc' = exc
                         ELSE pc' = "raised" /\ exc' = r.raised
    /\ UNCHANGED << runs, args, driverOpen, env, loadVars, cmdVars, funVars, memVars >>

NextSol ==
    \/ StartSolutions
    \/ RunAllStep
    \/ RunAllDone
    \/ RunOne

SpecSol == InitSol /\ [][NextSol]_vars

----------------------------------------------------------------------------
(* solution_srcs/05_02_context_provider.py: UserInfoMemory *)

\* class UserInfo(BaseModel): name: str | None = None, age: int | None = None
UserInfo(name, age) == [ name |-> name, age |-> age ]

\* Names and ages an extraction can return: none, an empty or zero value,
\* and two different values
ExtractedNames == { None, Some(""), Some("Alex"), Some("Sam") }

ExtractedAges == { None, Some(0), Some(30), Some(41) }

\* What `await self._chat_client.get_response(...)` followed by
\* `result.value` can do: raise, give no value, or give a UserInfo
Responses ==
    { [ raised |-> TRUE, value |-> None ],
      [ raised |-> FALSE, value |-> None ] }
    \cup { [ raised |-> FALSE, value |-> Some(UserInfo(n, a)) ] :
             n \in ExtractedNames, a \in ExtractedAges }

\* state.setdefault(self.source_id, {}).setdefault("user_info", UserInfo())
setdefault(st) == IF st = None THEN Some(UserInfo(None, None)) ELSE st

\* `extracted.name` as a condition: None and "" are falsy
name_given(v) == v # None /\ v[1] # ""

\* `extracted.age` as a condition: None and 0 are falsy
age_given(v) == v # None /\ v[1] # 0

\* Faulty variant of field_unknown: every extraction overwrites the field.
field_unknown_always(v) == TRUE

\* `user_info.name is None`, `user_info.age is None`
field_unknown(v) == v = None

\* before_run: the instructions built from the stored user info
instructions_for(user_info) ==
    << IF user_info.name = None
       THEN Line("ask_name", 0, "")
       ELSE Line("name_is", 0, user_info.name[1]),
       IF user_info.age = None
       THEN Line("ask_age", 0, "")
       ELSE Line("age_is", user_info.age[1], "") >>

\* after_run: the user info in the state when the method returns;
\* has_user tells whether the turn has a message of role "user"
after_run(st, has_user, response) ==
    LET user_info == setdefault(st)[1]
    IN  IF user_info.name # None /\ user_info.age # None
        THEN user_info
        ELSE IF ~has_user \/ response.raised
        THEN user_info
        ELSE LET extracted == response.value
                 name == IF /\ extracted # None
                            /\ field_unknown(user_info.name)
                            /\ name_given(extracted[1].name)
                         THEN extracted[1].name
                         ELSE user_info.name
                 age  == IF /\ extracted # None
                            /\ field_unknown(user_info.age)
                            /\ age_given(extracted[1].age)
                         THEN extracted[1].age
                         ELSE user_info.age
             IN  UserInfo(name, age)

\* after_run calls the chat client: something is missing and the turn has
\* a user message
calls_client(st, has_user) ==
    LET user_info == setdefault(st)[1]
    IN  (user_info.name = None \/ user_info.age = None) /\ has_user

InitMem ==
    /\ Unused
    /\ pc = "session"
    /\ runs = 0
    /\ args = [ command |-> "solutions", choice |-> << "9" >> ]
    /\ store = EmptyStore
    /\ driverOpen = FALSE
    /\ exc = "none"
    /\ found = << >>
    /\ pdf_files = << >>
    /\ company_meta = {}
    /\ i = 0
    /\ result = None
    /\ results = << >>
    /\ raised = << >>
    /\ env = NoEnv
    /\ inflight = 0
    /\ clock = 1
    /\ calls = << >>
    /\ out = << >>
    /\ summary = None

(* UserInfoMemory.before_run *)
BeforeRun ==
    /\ pc = "session"
    /\ state' = setdefault(state)
    /\ context' = [ context EXCEPT
                      !.instructions = instructions_for(setdefault(state)[1]) ]
    /\ UNCHANGED << pc, runs, args, driverOpen, exc, i, env, calls, out,
                    loadVars, cmdVars, funVars >>

(* UserInfoMemory.after_run; `result` is the response of the chat client,
   assigned when the call returns *)
AfterRun ==
    /\ pc = "session"
    /\ \E has_user \in BOOLEAN, response \in Responses :
          /\ state' = Some(after_run(state, has_user, response))
          /\ result' = IF calls_client(state, has_user) /\ ~response.raised
                       THEN Some(response)
                       ELSE result
          /\ calls' = IF calls_client(state, has_user)
                      THEN << Call("get_response", 0, "") >>
                      ELSE << >>
    /\ UNCHANGED << pc, runs, args, driverOpen, exc, i, env, out, context,
                    store, found, pdf_files, company_meta, results, raised,
                    inflight, clock, summary, cmdVars, funVars >>

NextMem ==
    \/ BeforeRun
    \/ AfterRun

SpecMem == InitMem /\ [][NextMem]_vars

----------------------------------------------------------------------------
(* C11 *)

\* The first n entries of seq, all of them when seq has fewer than n.
FirstN(seq, n) ==
    SubSeq(seq, 1, IF n < Len(seq) THEN n ELSE Len(seq))

\* C11: once the load command has listed the PDFs, the documents it is
\* going to process are exactly the first N entries of the sorted list when
\* a limit N was given (all of them when fewer than N exist), and the whole
\* sorted list when no limit was given.
C11_LimitKeepsFirstN ==
    HasLine("processing_n_pdfs") =>
        pdf_files = IF args.limit = None
                    THEN found
                    ELSE FirstN(found, args.limit[1])

----------------------------------------------------------------------------
(* C13 *)

\* A store with no constraint, no index other than the LOOKUP ones, no node
\* and no relationship
Cleared(d) ==
    /\ d.constraints = {}
    /\ d.indexes \subseteq LOOKUP_INDEXES
    /\ \A l \in NodeLabels : d.nodes[l] = 0
    /\ d.rels = 0

\* The count verification of this command has printed its report
Verified == args.command = "verify" /\ HasLine("total_nodes")

\* C13: once clear_database has returned, whatever the store held, the store
\* has no constraint, no index other than LOOKUP indexes, no node and no
\* relationship; a count verification run on that store reports no label
\* with a positive count, zero nodes in total and zero relationships.
C13_ClearLeavesNothing ==
    /\ (args.command = "clean" /\ HasLine("database_cleared")) => Cleared(db)
    /\ (Verified /\ Cleared(db)) =>
         /\ \A n \in 1 .. Len(out) : out[n].tag # "label_count"
         /\ \E n \in 1 .. Len(out) : out[n] = Line("total_nodes", 0, "")
         /\ \E n \in 1 .. Len(out) : out[n] = Line("total_relationships", 0, "")

\* Witness of C13: a verify command has reported on a store that an earlier
\* clean emptied in more than one batch.
C13_Witness ==
    /\ Verified
    /\ Cleared(db)
    /\ deleted_total > BATCH
    /\ pc = "done"

----------------------------------------------------------------------------
(* C14 *)

\* C14: when the store is unreachable at connect(), the diagnostic is
\* printed, the process ends with a non-zero exit status, the driver is
\* closed, and no step of the command's body is executed: connectivity
\* verification is the only call made.
C14_UnreachableExits ==
    env.conn = "unavailable" =>
        /\ pc = "exited"
        /\ ExitStatus # 0
        /\ exc = "SystemExit"
        /\ HasLine("cannot_connect")
        /\ ~driverOpen
        /\ calls = << Call("verify_connectivity", 0, "") >>
        /\ Len(out) = 1

\* Witness of C14: a clean command found the store unreachable while the
\* store held nodes.
C14_Witness ==
    /\ env.conn = "unavailable"
    /\ args.command = "clean"
    /\ pc = "exited"
    /\ total_nodes(db) > 0

----------------------------------------------------------------------------
(* C15 *)

\* Calls that contact the graph store
StoreCalls ==
    { "verify_connectivity", "clear_database", "create_company_nodes",
      "create_constraint", "create_vector_index", "create_fulltext_index",
      "create_asset_manager_relationships", "verify", "validate_enrichment",
      "run_async", "resolver_run", "drop_constraints", "drop_indexes",
      "delete_batch", "rag_search", "run_all_samples" }

\* A configuration error was raised in this run
ConfigError ==
    \/ env.cfg \in { "missing", "bad_scheme" }
    \/ env.engine = "no_provider"

\* C15: when a configuration error is raised (graph-store settings rejected,
\* or no LLM provider configured), no network activity of the run has
\* happened: the store was never connected to, queried or written.
C15_ConfigErrorBeforeNetwork ==
    ConfigError =>
        /\ exc = "ValidationError"
        /\ \A n \in 1 .. Len(calls) : calls[n].op \notin StoreCalls

----------------------------------------------------------------------------
(* C16, C17 *)

\* The checks of this verify_searches call whose search raised
RaisedChecks == { k \in 1 .. Len(checked) : checked[k].raised }

\* verify_searches has left its loop
LoopOver == checked # << >> /\ pc \in { "search_tally", "close", "done", "raised" }

Passing(o) ==
    /\ ~o.raised
    /\ o.n_results >= 1
    /\ o.answer # None
    /\ \E k \in 1 .. Len(o.answer[1]) : o.answer[1][k] \notin Whitespace

\* C17: every check is counted exactly once, as passed exactly when the
\* retriever returned at least one result and the answer is non-empty after
\* trimming, as failed otherwise; at the end passed + failed = 3; a non-zero
\* failed count is printed and neither raises nor changes the exit status.
C17_TallyCountsEachCheckOnce ==
    /\ tally.passed = Cardinality({ k \in 1 .. Len(checked) :
                                      Passing(checked[k]) })
    /\ tally.failed = Cardinality({ k \in 1 .. Len(checked) :
                                      ~Passing(checked[k]) })
    /\ LoopOver => tally.passed + tally.failed = 3
    /\ HasLine("search_failed") =>
          /\ \E n \in 1 .. Len(out) :
                out[n] = Line("search_failed", tally.failed, "")
          /\ \E n \in 1 .. Len(out) :
                out[n] = Line("search_passed", tally.passed, "")
          /\ exc = "none"
          /\ pc \in { "close", "done" }
          /\ pc = "done" => ExitStatus = 0

\* Witness of C17: the command returned after one check passed, one had
\* results and a whitespace-only answer, and one had no result.
C17_Witness ==
    /\ pc = "done"
    /\ Len(checked) = 3
    /\ tally = [ passed |-> 1, failed |-> 2 ]
    /\ \E k \in 1 .. 3 : /\ checked[k].n_results = TOP_K
                         /\ checked[k].answer = Some(<< " ", "\n" >>)
    /\ \E k \in 1 .. 3 : ~checked[k].raised /\ checked[k].n_results = 0
    /\ HasLine("check_indexes_hint")

----------------------------------------------------------------------------
(* C18 *)

\* validate_enrichment has returned in this command
Validated ==
    \E n \in 1 .. Len(calls) : calls[n] = Call("validate_enrichment", 0, "")

\* The warning of a check that found nothing was printed
Warned(check) ==
    \E n \in 1 .. Len(out) : out[n] = Line("warn_not_found", 0, check)

\* C18: every check of validate_enrichment that finds nothing (chunks with
\* embeddings, each extracted-entity label, relationship frequencies, the
\* provenance aggregate) prints a 'not found' warning, and none raises.
C18_EveryEmptyCheckWarns ==
    (args.command = "verify" /\ Validated) =>
        /\ exc \in { "none", "ValidationError", "SetupError" }
        /\ (\E n \in 1 .. Len(out) : out[n] = Line("chunks_samples", 0, ""))
              => Warned("chunks")
        /\ \A k \in 1 .. Len(EXTRACTED_LABELS) :
              db.nodes[EXTRACTED_LABELS[k]] = 0 => Warned(EXTRACTED_LABELS[k])
        /\ (\A n \in 1 .. Len(out) : out[n].tag # "relationships")
              => Warned("relationships")
        /\ (\E n \in 1 .. Len(out) : out[n] = Line("provenance", 0, ""))
              => Warned("provenance")

----------------------------------------------------------------------------
(* C12 *)

\* The name and the key are the same up to the case of their letters
SameIgnoringCase(a, b) ==
    /\ Len(a) = Len(b)
    /\ \A k \in 1 .. Len(a) : LowerChar(a[k]) = LowerChar(b[k])

\* normalize_company_name has returned
Normalized == pc = "returned" /\ fin.f = "normalize_company_name"

\* C12: normalize_company_name returns the canonical form mapped to a key
\* of the table for every name equal to that key exactly or up to case, and
\* returns the name itself for every other name.
C12_NormalizeByTable ==
    Normalized =>
        /\ \A k \in 1 .. Len(COMPANY_NAME_MAPPINGS) :
              SameIgnoringCase(fin.name, COMPANY_NAME_MAPPINGS[k].key)
                 => fout.ret = COMPANY_NAME_MAPPINGS[k].canonical
        /\ (\A k \in 1 .. Len(COMPANY_NAME_MAPPINGS) :
               ~SameIgnoringCase(fin.name, COMPANY_NAME_MAPPINGS[k].key))
              => fout.ret = fin.name

\* Witness of C12: a mixed-case spelling of a key was mapped to the
\* canonical form of that key.
C12_Witness ==
    /\ Normalized
    /\ fin.name = << "P", "a", "y", "P", "a", "l" >>
    /\ fout.ret = COMPANY_NAME_MAPPINGS[4].canonical

----------------------------------------------------------------------------
(* C19 *)

\* get_llm or get_embedder has returned or raised
ClientCalled == pc = "returned" /\ fin.f \in { "get_llm", "get_embedder" }

\* A credential is present when it is set and not empty
Present(v) == v # None /\ v # Some("")

\* C19: when settings validation succeeds, the key-based client is built
\* only with a non-empty API key, the identity-based client only with a
\* project endpoint and no API key; with neither credential present the
\* settings are rejected.
C19_ProviderByCredential ==
    ClientCalled =>
        /\ fout.client = "openai" =>
              Present(fin.key) /\ fout.api_key = fin.key
        /\ fout.client = "azure" =>
              Present(fin.endpoint) /\ ~Present(fin.key)
        /\ (~Present(fin.key) /\ ~Present(fin.endpoint))
              => fout.raised = "ValidationError"

----------------------------------------------------------------------------
(* C20 *)

\* The rearrangements of the rows of a file
Rearrangements(rows) ==
    { [ k \in 1 .. Len(rows) |-> rows[o[k]] ] :
        o \in Orders(1 .. Len(rows)) }

\* The two files have been loaded
Loaded == pc = "returned" /\ fin.f = "load_reference_files"

\* The result of the load is the same for every order of the rows
OrderInsignificant ==
    \A c \in Rearrangements(fin.companies), h \in Rearrangements(fin.holdings) :
        load_reference_files(c, h) = fout

NoSharedKeys ==
    /\ \A a, b \in 1 .. Len(fin.companies) :
          (/\ a < b
           /\ fin.companies[a].path.name # ""
           /\ fin.companies[b].path.name # "")
          => /\ fin.companies[a].path.name # fin.companies[b].path.name
             /\ normalize_company_name(fin.companies[a].name)
                   # normalize_company_name(fin.companies[b].name)
    /\ \A a, b \in 1 .. Len(fin.holdings) :
          a < b =>
             \/ fin.holdings[a].manager_name # fin.holdings[b].manager_name
             \/ normalize_company_name(fin.holdings[a].company_name)
                   # normalize_company_name(fin.holdings[b].company_name)

----------------------------------------------------------------------------
(* C21 *)

\* One row of a reference file has been read
RowLoaded ==
    pc = "returned"
    /\ fin.f \in { "load_company_metadata", "load_asset_managers" }

\* The column is missing from the file, or the row has no value for it
Missing(cell) == cell = NoColumn \/ Falsy(cell[1])

\* C21: a row with a missing column or a missing value never causes an
\* error, and the loaded record has the default for each such field: the
\* empty string for name, ticker, CIK, CUSIP, manager name and company name,
\* zero for the share count.
C21_MissingFieldsDefault ==
    RowLoaded =>
        /\ fout.raised = ""
        /\ fin.f = "load_company_metadata" =>
              \A c \in { "name", "ticker", "cik", "cusip" } :
                 Missing(fin.row[c]) => fout.record[c] = PyStr(<< >>)
        /\ fin.f = "load_asset_managers" =>
              /\ Missing(fin.row.managerName)
                    => fout.record.manager_name = PyStr(<< >>)
              /\ Missing(fin.row.companyName)
                    => fout.record.company_name = PyStr(<< >>)
              /\ Missing(fin.row.shares) => fout.record.shares = PyInt(0)

----------------------------------------------------------------------------
(* C22 *)

\* C22: after create_asset_manager_relationships has processed the
\* holdings, every AssetManager node has an OWNS relationship, with its
\* share count, to a Company node of the store.
C22_EveryManagerOwns ==
    Loaded =>
        \A m \in fout.graph.managers :
           \E r \in fout.graph.owns :
              /\ r.manager = m
              /\ \E c \in fout.graph.companies : c.name = r.company

----------------------------------------------------------------------------
(* C23 *)

\* C23: every error that is caught and not propagated leaves a printed or
\* logged trace: a failed document extraction, a failed vector-index
\* creation, a failed search check, and a failed first credential strategy
\* of the token acquisition.
C23_CaughtErrorsTraced ==
    /\ \A k \in 1 .. Len(results) :
          ~results[k].success =>
             \E n \in 1 .. Len(out) :
                out[n].tag \in { "FAIL", "log_FAILED" }
                /\ out[n].doc = results[k].pdf_path
    /\ env.vector = "raise" => HasLine("WARN_vector_index")
    /\ \A k \in RaisedChecks :
          \E n \in 1 .. Len(out) : out[n] = Line("fail_error", k, "")
    /\ (pc = "returned" /\ fin.f = "get_azure_token") =>
          \A k \in 1 .. Len(fout.caught) :
             \E n \in 1 .. Len(fout.traces) : fout.traces[n] = fout.caught[k]

----------------------------------------------------------------------------
(* C24 *)

\* C24: over any sequence of load runs from an empty store, no uniqueness
\* constraint of the extraction set (RiskFactor, Product, Executive,
\* FinancialMetric names) is in the store while a document extraction is
\* invoked.
C24_NoExtractionConstraintDuringExtraction ==
    pc = "await" =>
        \A k \in 1 .. Len(EXTRACTION_CONSTRAINTS) :
           EXTRACTION_CONSTRAINTS[k] \notin store.constraints

----------------------------------------------------------------------------
(* C25 *)

\* process_all_pdfs has returned in this run
BatchReturned == env.engine = "ok" /\ OutsideBatch /\ ~Interrupted

\* C25: process_all_pdfs constructs one extraction engine per run, before
\* the first extraction, and every extraction of the run uses it; the LLM
\* client is closed once, after the last document attempt, whichever
\* documents succeeded or failed.
C25_OneEngineClosedOnce ==
    /\ Cardinality(Pos("SimpleKGPipeline")) <= 1
    /\ Cardinality(Pos("llm_close")) <= 1
    /\ \A q \in Pos("run_async") :
          \E p \in Pos("SimpleKGPipeline") : p < q
    /\ \A c \in Pos("llm_close") :
          /\ AllAttempted
          /\ \A q \in Pos("run_async") : q < c
    /\ BatchReturned =>
          /\ Cardinality(Pos("SimpleKGPipeline")) = 1
          /\ Cardinality(Pos("llm_close")) = 1

\* Witness of C25: a load returned after a batch of three documents, of
\* which the second failed, with one engine and one close.
C25_Witness ==
    /\ pc = "done"
    /\ Len(pdf_files) = 3
    /\ FailedAttempts = { 2 }
    /\ Cardinality(Pos("SimpleKGPipeline")) = 1
    /\ Cardinality(Pos("llm_close")) = 1

----------------------------------------------------------------------------
(* C26 *)

\* C26: when a keyboard interrupt arrives while document k is processed, it
\* leaves process_all_pdfs: the extraction of k is the last one of the run,
\* k gets no result record, neither entity resolution nor constraint
\* creation runs, and connect() closes the driver before the interrupt
\* leaves the command.
C26_InterruptPropagates ==
    Interrupted =>
        /\ pc \in { "close", "raised" }
        /\ result # None
        /\ Invoked # << >>
        /\ Invoked[Len(Invoked)] = result[1].pdf_path
        /\ Len(results) = Len(Invoked) - 1
        /\ summary = None
        /\ Pos("resolver_run") = {}
        /\ Pos("create_constraint") = {}
        /\ pc = "raised" =>
              /\ ~driverOpen
              /\ Pos("driver_close") # {}

\* Witness of C26: the interrupt arrived during the second of three
\* documents and the command has ended.
C26_Witness ==
    /\ Interrupted
    /\ pc = "raised"
    /\ Len(pdf_files) = 3
    /\ Len(Invoked) = 2
    /\ Len(results) = 1

----------------------------------------------------------------------------
(* C27 *)

\* C27: when control has left connect(), on any exit path, the driver that
\* connect() created is closed.
C27_DriverAlwaysClosed ==
    pc \in { "done", "exited", "raised" } => ~driverOpen

----------------------------------------------------------------------------
(* C28 *)

\* Node counts of the stores a clean command can find
ClearCounts == { total_nodes(d) : d \in Stores }

\* clear_database has left its loop and printed n as the number deleted
ClearedWith(n) ==
    /\ pc = "close"
    /\ total_nodes(db) = 0
    /\ out[Len(out)] = Line("database_cleared", n, "")

\* C28: every iteration of the batch loop of clear_database deletes at most
\* 500 nodes and adds what it deleted to the running total; the loop goes on
\* after an iteration that deleted something and stops at the first one
\* that deleted nothing; from every initial node count the loop is left,
\* with no node in the store and the initial count as the reported total.
C28_ClearLoopTerminates ==
    /\ [][pc = "delete_batch" =>
            LET count == total_nodes(db) - total_nodes(db')
            IN  /\ count \in 0 .. BATCH
                /\ deleted_total' = deleted_total + count
                /\ (pc' = "close") <=> (count = 0)
                /\ (pc' = "delete_batch") <=> (count > 0)]_vars
    /\ \A n \in ClearCounts :
          (pc = "delete_batch" /\ deleted_total = 0 /\ total_nodes(db) = n)
             ~> ClearedWith(n)

\* Witness of C28: a clean command left the loop after three iterations,
\* two full batches and one that deleted nothing.
C28_Witness ==
    /\ args.command = "clean"
    /\ ClearedWith(BATCH + BATCH)
    /\ Cardinality(Pos("delete_batch")) = 3

----------------------------------------------------------------------------
(* C29 *)

\* The solutions run by this command, in the order they were run
Ran == [ k \in 1 .. Len(calls) |-> calls[k].doc ]

\* C29: under choice A the solutions run are, in this order, solution 4,
\* 5, ... of the list, each once, and none of the data-deleting solutions
\* 1 to 3; when no solution was interrupted from the keyboard, whichever
\* solutions raised an error, the run goes on to the last list entry.
C29_RunAllFromFour ==
    (args.command = "solutions" /\ run_all(args.choice)) =>
        /\ \A k \in 1 .. Len(Ran) :
              /\ Ran[k] = k + 3
              /\ calls[k] = Call("run_solution", k + 3, SOLUTIONS[k + 3])
              /\ Ran[k] \notin DATA_DELETING
        /\ pc = "run_all" => Len(Ran) = i - 4
        /\ ~HasLine("interrupted") =>
              /\ pc \in { "run_all", "done" }
              /\ pc = "done" => Len(Ran) = Len(SOLUTIONS) - 3

\* Witness of C29: "run all" has completed although the first and the last
\* solution it ran raised an error.
C29_Witness ==
    /\ args.command = "solutions"
    /\ run_all(args.choice)
    /\ pc = "done"
    /\ HasLine("all_completed")
    /\ \E n \in 1 .. Len(out) : out[n] = Line("error", 4, SOLUTIONS[4])
    /\ \E n \in 1 .. Len(out) :
          out[n] = Line("error", Len(SOLUTIONS), SOLUTIONS[Len(SOLUTIONS)])
    /\ Len(Ran) = 15

----------------------------------------------------------------------------
(* C30 *)

\* The stored name and age of a session state; unknown while the state has
\* no user info
Stored(st) == setdefault(st)[1]

\* C30: in every before_run and after_run call, a stored name that is known
\* stays as it is and a stored age that is known stays as it is: the fields
\* only change from unknown to a value, whatever the extraction returns and
\* also when it fails.
C30_KnownFieldsKept ==
    [][/\ Stored(state).name # None =>
             Stored(state').name = Stored(state).name
       /\ Stored(state).age # None =>
             Stored(state').age = Stored(state).age]_vars

\* Witness of C30: the name Alex is stored, the age is not, and the latest
\* extraction returned another name.
C30_Witness ==
    /\ state = Some(UserInfo(Some("Alex"), None))
    /\ result = Some([ raised |-> FALSE,
                       value |-> Some(UserInfo(Some("Sam"), None)) ])
    /\ calls = << Call("get_response", 0, "") >>

====
